---- MODULE Spec2Model ----
(***************************************************************************)
(* Verification model of the storage-engine core of the repository:        *)
(*   - the LRU-K replacer            (src/unnamed/part_001)                 *)
(*   - the buffer pool manager       (src/unnamed/part_000)                 *)
(*   - the B+tree index, its pages and iterator (src/project2, and the     *)
(*     internal page code at the end of src/project1/...hash_table.cpp)     *)
(*                                                                         *)
(* Specifications:                                                         *)
(*   SpecBPM  buffer pool calls, one at a time, over the real replacer     *)
(*   SpecRepl calls of the replacer's own interface, one at a time         *)
(*   Spec     B+tree calls run one at a time (each call is one action)     *)
(*   SpecConc B+tree calls of several threads, interleaved latch by latch  *)
(***************************************************************************)
EXTENDS Integers, Sequences, FiniteSets, TLC

\* ------------------------------------------------------------------------
\* Bounds of the model
\* ------------------------------------------------------------------------
PoolSize == 2          \* frames of the buffer pool (pool_size_)
MaxPages == 3          \* page ids the allocator may hand out in SpecBPM
MaxTimestamp == 5      \* cap on the replacer's current_timestamp_
MaxData == 1           \* page bytes are abstracted to a value in 0..MaxData
MaxKey == 5            \* B+tree keys are 1..MaxKey
MaxValue == 2          \* B+tree values are 1..MaxValue
MaxRewrittenKey == 1   \* keys that Insert is given with every value
MaxConcKey == 3        \* keys of the calls that run concurrently: 1..MaxConcKey
MaxConcPageId == 4     \* pages allocated when threads share the index (SpecConc)
MaxCrabPageId == 6     \* pages allocated when threads share the index (SpecCrab)
MaxWritersPageId == 3  \* pages allocated when threads share the index (SpecWriters)
MaxFairKey == 2        \* keys of the calls under fair scheduling: 1..MaxFairKey
MaxFairCalls == 5      \* calls the threads make under fair scheduling (SpecFair)
MaxBudget == 5         \* NewPage calls that get a frame before the pool runs out
MaxTreePageId == 8     \* largest page id the B+tree specifications allocate
MaxReplFrames == 3     \* replacer_size_ of the replacer that is called directly
MaxHashKey == 5        \* hash-table keys are 0..MaxHashKey
MaxHashValue == 2      \* hash-table values are 1..MaxHashValue

\* ------------------------------------------------------------------------
\* Program constants
\* ------------------------------------------------------------------------
INVALID_PAGE_ID == -1
HEADER_PAGE_ID == 0
ReplacerK == 2         \* k_ of the replacer (constructor argument)
BucketSize == 2        \* bucket_size of the hash table (constructor argument)

Frames == 0 .. (PoolSize - 1)
NoFrame == -1
DataValues == 0 .. MaxData

VARIABLES
  \* ---- buffer pool manager (BufferPoolManagerInstance)
  pages_,          \* frame -> [page_id_, pin_count_, is_dirty_, data_]
  free_list_,      \* sequence of free frame ids, front first
  page_table_,     \* resident page id -> frame id
  replacer_,       \* the LRUKReplacer object (record of its fields)
  next_page_id_,   \* the allocator's counter
  disk,            \* disk manager: page id -> bytes last written
  bpm_ret,         \* the last buffer-pool (or direct replacer) call and what it returned
  bpm_log,         \* disk / page-table / frame events of the last call, in code order
  \* ---- B+tree index (BPlusTree)
  tree,            \* the tree object, its pages and the pool's view of them
  kv,              \* ghost: key -> value of the last successful Insert (0: absent)
  bt_ret,          \* the last B+tree call and what it returned
  thr              \* the calls in progress when threads share the index

bpmVars == <<pages_, free_list_, page_table_, replacer_, next_page_id_, disk,
             bpm_ret, bpm_log>>
treeVars == <<tree, kv, bt_ret, thr>>
vars == <<bpmVars, treeVars>>

\* ------------------------------------------------------------------------
\* Small helpers
\* ------------------------------------------------------------------------
Restrict(f, S) == [x \in S |-> f[x]]

RECURSIVE SeqWithout(_, _)
SeqWithout(s, x) ==
  IF s = <<>> THEN <<>>
  ELSE IF Head(s) = x THEN SeqWithout(Tail(s), x)
       ELSE <<Head(s)>> \o SeqWithout(Tail(s), x)

SeqToSet(s) == { s[i] : i \in 1 .. Len(s) }

\* ========================================================================
\* LRU-K replacer (src/unnamed/part_001).  A replacer value r is the record
\* of the object's fields; each operator returns the new record.
\* ========================================================================
\* an absent entry of node_store_; a default-constructed LRUKNode has an empty
\* history and is not evictable
NoNode == [tracked |-> FALSE, history_ |-> << >>, is_evictable_ |-> FALSE]

NewReplacer ==
  [ node_store_        |-> [f \in Frames |-> NoNode],  \* frame -> node, NoNode when absent
    history_list_      |-> << >>,      \* evictable frames with < k accesses, front first
    cache_list_        |-> << >>,      \* evictable frames with k accesses, front first
    curr_size_         |-> 0,
    current_timestamp_ |-> 0 ]

Tracked(r) == { f \in DOMAIN r.node_store_ : r.node_store_[f].tracked }

AddToHistoryList(r, f) == [r EXCEPT !.history_list_ = <<f>> \o @]

AddToCacheList(r, f) == [r EXCEPT !.cache_list_ = <<f>> \o @]

RemoveFromHistoryList(r, f) == [r EXCEPT !.history_list_ = SeqWithout(@, f)]

RemoveFromCacheList(r, f) == [r EXCEPT !.cache_list_ = SeqWithout(@, f)]

\* mutant: erase forgets the recorded timestamps
EraseNode_KeepsHistory(r, f) ==
  [r EXCEPT !.node_store_[f].tracked = FALSE, !.node_store_[f].is_evictable_ = FALSE]

EraseNode(r, f) ==
  [r EXCEPT !.node_store_[f] = NoNode]

\* history_.back(): the oldest retained timestamp of frame f
KthTimestamp(r, f) ==
  LET h == r.node_store_[f].history_ IN h[Len(h)]

\* mutant: the scan takes the first frame of cache_list_
CacheVictim_First(r, lst, best, bestTs) ==
  IF lst = <<>> THEN best ELSE Head(lst)

\* the scan of cache_list_ in Evict: the frame whose oldest retained
\* timestamp is smallest (strict <, so the first such frame in list order)
RECURSIVE CacheVictim(_, _, _, _)
CacheVictim(r, lst, best, bestTs) ==
  IF lst = <<>> THEN best
  ELSE LET fid == Head(lst)
           ts  == KthTimestamp(r, fid)
       IN IF best = NoFrame \/ ts < bestTs
          THEN CacheVictim(r, Tail(lst), fid, ts)
          ELSE CacheVictim(r, Tail(lst), best, bestTs)

\* mutant: Evict looks at the frames with k accesses only
ReplacerEvict_CacheOnly(r) ==
  IF r.curr_size_ = 0 \/ r.cache_list_ = << >>
  THEN [ok |-> FALSE, frame |-> NoFrame, r |-> r]
  ELSE LET f == CacheVictim(r, r.cache_list_, NoFrame, 0)
           r1 == [RemoveFromCacheList(r, f) EXCEPT !.curr_size_ = @ - 1]
       IN [ok |-> TRUE, frame |-> f, r |-> EraseNode(r1, f)]

\* LRUKReplacer::Evict: [ok, frame, r]
ReplacerEvict(r) ==
  IF r.curr_size_ = 0 THEN [ok |-> FALSE, frame |-> NoFrame, r |-> r]
  ELSE IF r.history_list_ # <<>> THEN
    LET n == Len(r.history_list_)
        f == r.history_list_[n]
        r1 == [r EXCEPT !.history_list_ = SubSeq(@, 1, n - 1),
                        !.curr_size_ = @ - 1]
    IN [ok |-> TRUE, frame |-> f, r |-> EraseNode(r1, f)]
  ELSE IF r.cache_list_ # <<>> THEN
    LET f == CacheVictim(r, r.cache_list_, NoFrame, 0)
        r1 == [RemoveFromCacheList(r, f) EXCEPT !.curr_size_ = @ - 1]
    IN [ok |-> TRUE, frame |-> f, r |-> EraseNode(r1, f)]
  ELSE [ok |-> FALSE, frame |-> NoFrame, r |-> r]

\* mutant: a frame that reaches k accesses stays in the history list
ReplacerRecordAccess_NoPromote(r, f) ==
  LET ts   == r.current_timestamp_ + 1
      node == r.node_store_[f]
      h1   == <<ts>> \o node.history_
      h2   == IF Len(h1) > ReplacerK THEN SubSeq(h1, 1, Len(h1) - 1) ELSE h1
  IN [r EXCEPT !.current_timestamp_ = ts,
               !.node_store_[f] = [node EXCEPT !.history_ = h2, !.tracked = TRUE]]

\* LRUKReplacer::RecordAccess
ReplacerRecordAccess(r, f) ==
  LET ts   == r.current_timestamp_ + 1
      node == r.node_store_[f]      \* node_store_[frame_id] creates it when absent
      old  == Len(node.history_)
      h1   == <<ts>> \o node.history_
      h2   == IF Len(h1) > ReplacerK THEN SubSeq(h1, 1, Len(h1) - 1) ELSE h1
      node2 == [node EXCEPT !.history_ = h2, !.tracked = TRUE]
      r1   == [r EXCEPT !.current_timestamp_ = ts, !.node_store_[f] = node2]
  IN IF node.is_evictable_ /\ old < ReplacerK /\ Len(h2) = ReplacerK
     THEN AddToCacheList(RemoveFromHistoryList(r1, f), f)
     ELSE r1

\* mutant: SetEvictable returns without doing anything
ReplacerSetEvictable_Ignored(r, f, set_evictable) == r

\* LRUKReplacer::SetEvictable
ReplacerSetEvictable(r, f, set_evictable) ==
  IF f \notin Tracked(r) THEN r
  ELSE IF r.node_store_[f].is_evictable_ = set_evictable THEN r
  ELSE LET r1 == [r EXCEPT !.node_store_[f].is_evictable_ = set_evictable] IN
    IF set_evictable
    THEN LET r2 == [r1 EXCEPT !.curr_size_ = @ + 1] IN
         IF Len(r.node_store_[f].history_) < ReplacerK
         THEN AddToHistoryList(r2, f)
         ELSE AddToCacheList(r2, f)
    ELSE LET r2 == [r1 EXCEPT !.curr_size_ = @ - 1] IN
         IF f \in SeqToSet(r.history_list_) THEN RemoveFromHistoryList(r2, f)
         ELSE IF f \in SeqToSet(r.cache_list_) THEN RemoveFromCacheList(r2, f)
         ELSE r2

\* mutant: Remove forgets to purge the frame
ReplacerRemove_Keeps(r, f) == r

\* LRUKReplacer::Remove, on a frame that is untracked or evictable (the
\* only calls the buffer pool makes)
ReplacerRemove(r, f) ==
  IF f \notin Tracked(r) THEN r
  ELSE LET r1 == [r EXCEPT !.curr_size_ = @ - 1]
           r2 == IF Len(r.node_store_[f].history_) < ReplacerK
                 THEN RemoveFromHistoryList(r1, f)
                 ELSE RemoveFromCacheList(r1, f)
       IN EraseNode(r2, f)

ReplacerSize(r) == r.curr_size_

IsEvictable(r, f) == f \in Tracked(r) /\ r.node_store_[f].is_evictable_

\* ========================================================================
\* Buffer pool manager (src/unnamed/part_000)
\* ========================================================================
PageIds == 0 .. (MaxPages - 1)

FreeFrame == [page_id_ |-> INVALID_PAGE_ID, pin_count_ |-> 0, is_dirty_ |-> FALSE,
              data_ |-> 0]

Ev(e, p, d) == [ev |-> e, page |-> p, data |-> d]

Ret(op, p, dirty, ok, f) ==
  [op |-> op, page_id |-> p, is_dirty |-> dirty, ok |-> ok, frame |-> f]

\* mutant: the constructor's loop stops one frame short
InitialFreeList_Short(n) == [i \in 1 .. (n - 1) |-> i - 1]

\* free_list_ holds 0 .. pool_size-1 in order after construction
RECURSIVE InitialFreeList(_)
InitialFreeList(n) == IF n = 0 THEN << >> ELSE InitialFreeList(n - 1) \o <<n - 1>>

Resident(p) == page_table_[p] # NoFrame

\* mutant: the dirty victim is not written back
WriteBackVictim_Skips(dsk, frame) == [disk |-> dsk, log |-> << >>]

\* The write-back of a dirty victim (NewPgImp 2a / FetchPgImp 2b): the new disk
\* contents and the events issued, given the victim frame's page id and bytes
WriteBackVictim(dsk, frame) ==
  IF frame.is_dirty_
  THEN [disk |-> [dsk EXCEPT ![frame.page_id_] = frame.data_],
        log  |-> <<Ev("WritePage", frame.page_id_, frame.data_)>>]
  ELSE [disk |-> dsk, log |-> << >>]

\* mutant: no eviction is attempted when the free list is empty
AcquireFrame_NoEvict ==
  IF free_list_ # << >>
  THEN [ok |-> TRUE, frame |-> Head(free_list_), free_list |-> Tail(free_list_),
        replacer |-> replacer_, pages |-> pages_, page_table |-> page_table_,
        disk |-> disk, log |-> << >>]
  ELSE [ok |-> FALSE, frame |-> NoFrame, free_list |-> free_list_,
        replacer |-> replacer_, pages |-> pages_, page_table |-> page_table_,
        disk |-> disk, log |-> << >>]

\* mutant: the victim's page-table entry is not removed
AcquireFrame_KeepsEntry ==
  IF free_list_ # << >>
  THEN [ok |-> TRUE, frame |-> Head(free_list_), free_list |-> Tail(free_list_),
        replacer |-> replacer_, pages |-> pages_, page_table |-> page_table_,
        disk |-> disk, log |-> << >>]
  ELSE LET e == ReplacerEvict(replacer_) IN
    IF e.ok
    THEN LET f   == e.frame
             wb  == WriteBackVictim(disk, pages_[f])
         IN [ok |-> TRUE, frame |-> f, free_list |-> free_list_,
             replacer |-> e.r,
             pages |-> [pages_ EXCEPT ![f].is_dirty_ = FALSE],
             page_table |-> page_table_,
             disk |-> wb.disk,
             log |-> wb.log]
    ELSE [ok |-> FALSE, frame |-> NoFrame, free_list |-> free_list_,
          replacer |-> replacer_, pages |-> pages_, page_table |-> page_table_,
          disk |-> disk, log |-> << >>]

\* Steps 1-2 of NewPgImp and 2a-2b of FetchPgImp: a frame from the free list,
\* else a replacer victim (written back if dirty, purged from the page table)
AcquireFrame ==
  IF free_list_ # << >>
  THEN [ok |-> TRUE, frame |-> Head(free_list_), free_list |-> Tail(free_list_),
        replacer |-> replacer_, pages |-> pages_, page_table |-> page_table_,
        disk |-> disk, log |-> << >>]
  ELSE LET e == ReplacerEvict(replacer_) IN
    IF e.ok
    THEN LET f   == e.frame
             old == pages_[f].page_id_
             wb  == WriteBackVictim(disk, pages_[f])
         IN [ok |-> TRUE, frame |-> f, free_list |-> free_list_,
             replacer |-> e.r,
             pages |-> [pages_ EXCEPT ![f].is_dirty_ = FALSE],
             page_table |-> [page_table_ EXCEPT ![old] = NoFrame],
             disk |-> wb.disk,
             log |-> wb.log \o <<Ev("PageTableRemove", old, 0)>>]
    ELSE [ok |-> FALSE, frame |-> NoFrame, free_list |-> free_list_,
          replacer |-> replacer_, pages |-> pages_, page_table |-> page_table_,
          disk |-> disk, log |-> << >>]

\* BufferPoolManagerInstance::NewPgImp
NewPgImp ==
  /\ UNCHANGED treeVars
  /\ LET a == AcquireFrame IN
       IF ~a.ok
       THEN /\ bpm_ret' = Ret("NewPage", INVALID_PAGE_ID, FALSE, FALSE, NoFrame)
            /\ bpm_log' = << >>
            /\ UNCHANGED <<pages_, free_list_, page_table_, replacer_, next_page_id_, disk>>
       ELSE LET f   == a.frame
                pid == next_page_id_
            IN /\ next_page_id_ < MaxPages
               /\ replacer_.current_timestamp_ < MaxTimestamp
               /\ next_page_id_' = next_page_id_ + 1
               /\ page_table_' = [a.page_table EXCEPT ![pid] = f]
               /\ replacer_' = ReplacerSetEvictable(ReplacerRecordAccess(a.replacer, f), f, FALSE)
               /\ pages_' = [a.pages EXCEPT ![f] =
                               [page_id_ |-> pid, pin_count_ |-> 1, is_dirty_ |-> FALSE,
                                data_ |-> 0]]
               /\ free_list_' = a.free_list
               /\ disk' = a.disk
               /\ bpm_log' = a.log \o <<Ev("ResetMemory", pid, 0)>>
               /\ bpm_ret' = Ret("NewPage", pid, FALSE, TRUE, f)

\* BufferPoolManagerInstance::FetchPgImp
FetchPgImp(page_id) ==
  /\ UNCHANGED treeVars
  /\ IF Resident(page_id)
       THEN LET f == page_table_[page_id] IN
            /\ replacer_.current_timestamp_ < MaxTimestamp
            /\ pages_' = [pages_ EXCEPT ![f].pin_count_ = @ + 1]
            /\ replacer_' = ReplacerSetEvictable(ReplacerRecordAccess(replacer_, f), f, FALSE)
            /\ bpm_ret' = Ret("FetchPage", page_id, FALSE, TRUE, f)
            /\ bpm_log' = << >>
            /\ UNCHANGED <<free_list_, page_table_, next_page_id_, disk>>
       ELSE LET a == AcquireFrame IN
         IF ~a.ok
         THEN /\ bpm_ret' = Ret("FetchPage", page_id, FALSE, FALSE, NoFrame)
              /\ bpm_log' = << >>
              /\ UNCHANGED <<pages_, free_list_, page_table_, replacer_, next_page_id_, disk>>
         ELSE LET f == a.frame IN
              /\ replacer_.current_timestamp_ < MaxTimestamp
              /\ page_table_' = [a.page_table EXCEPT ![page_id] = f]
              /\ replacer_' = ReplacerSetEvictable(ReplacerRecordAccess(a.replacer, f), f, FALSE)
              /\ pages_' = [a.pages EXCEPT ![f] =
                              [page_id_ |-> page_id, pin_count_ |-> 1, is_dirty_ |-> FALSE,
                               data_ |-> a.disk[page_id]]]
              /\ free_list_' = a.free_list
              /\ disk' = a.disk
              /\ bpm_log' = a.log \o <<Ev("ReadPage", page_id, a.disk[page_id])>>
              /\ bpm_ret' = Ret("FetchPage", page_id, FALSE, TRUE, f)
              /\ UNCHANGED next_page_id_

\* mutant: the dirty flag is assigned, not OR-ed
UnpinnedFrame_Assigns(frame, is_dirty) ==
  [frame EXCEPT !.pin_count_ = @ - 1, !.is_dirty_ = is_dirty]

\* The frame's header after a successful unpin (UnpinPgImp, lines 164-170)
UnpinnedFrame(frame, is_dirty) ==
  [frame EXCEPT !.pin_count_ = @ - 1,
                !.is_dirty_ = IF is_dirty THEN TRUE ELSE @]

\* BufferPoolManagerInstance::UnpinPgImp
UnpinPgImp(page_id, is_dirty) ==
  /\ UNCHANGED treeVars
  /\ bpm_log' = << >>
  /\ UNCHANGED <<free_list_, page_table_, next_page_id_, disk>>
  /\ IF ~Resident(page_id) \/ pages_[page_table_[page_id]].pin_count_ = 0
     THEN /\ bpm_ret' = Ret("UnpinPage", page_id, is_dirty, FALSE, NoFrame)
          /\ UNCHANGED <<pages_, replacer_>>
     ELSE LET f  == page_table_[page_id]
              fr == UnpinnedFrame(pages_[f], is_dirty)
          IN /\ pages_' = [pages_ EXCEPT ![f] = fr]
             /\ replacer_' = IF fr.pin_count_ = 0
                             THEN ReplacerSetEvictable(replacer_, f, TRUE)
                             ELSE replacer_
             /\ bpm_ret' = Ret("UnpinPage", page_id, is_dirty, TRUE, f)

\* mutant: FlushPage writes only a page whose dirty flag is set
FlushPgImp_OnlyDirty(page_id) ==
  /\ UNCHANGED treeVars
  /\ UNCHANGED <<free_list_, page_table_, replacer_, next_page_id_>>
  /\ IF ~Resident(page_id)
     THEN /\ bpm_ret' = Ret("FlushPage", page_id, FALSE, FALSE, NoFrame)
          /\ bpm_log' = << >>
          /\ UNCHANGED <<pages_, disk>>
     ELSE LET f == page_table_[page_id] IN
          /\ disk' = IF pages_[f].is_dirty_
                     THEN [disk EXCEPT ![page_id] = pages_[f].data_] ELSE disk
          /\ pages_' = [pages_ EXCEPT ![f].is_dirty_ = FALSE]
          /\ bpm_log' = IF pages_[f].is_dirty_
                        THEN <<Ev("WritePage", page_id, pages_[f].data_)>> ELSE << >>
          /\ bpm_ret' = Ret("FlushPage", page_id, FALSE, TRUE, f)

\* BufferPoolManagerInstance::FlushPgImp
FlushPgImp(page_id) ==
  /\ UNCHANGED treeVars
  /\ UNCHANGED <<free_list_, page_table_, replacer_, next_page_id_>>
  /\ IF ~Resident(page_id)
     THEN /\ bpm_ret' = Ret("FlushPage", page_id, FALSE, FALSE, NoFrame)
          /\ bpm_log' = << >>
          /\ UNCHANGED <<pages_, disk>>
     ELSE LET f == page_table_[page_id] IN
          /\ disk' = [disk EXCEPT ![page_id] = pages_[f].data_]
          /\ pages_' = [pages_ EXCEPT ![f].is_dirty_ = FALSE]
          /\ bpm_log' = <<Ev("WritePage", page_id, pages_[f].data_)>>
          /\ bpm_ret' = Ret("FlushPage", page_id, FALSE, TRUE, f)

\* mutant: the loop clears the dirty flags without writing the frames
FlushFrames_NoWrite(n, st) ==
  [st EXCEPT !.pages = [i \in Frames |->
                          IF i < n /\ st.pages[i].page_id_ # INVALID_PAGE_ID
                          THEN [st.pages[i] EXCEPT !.is_dirty_ = FALSE]
                          ELSE st.pages[i]]]

\* the loop of FlushAllPgsImp over frames 0 .. n-1: [disk, pages, log]
RECURSIVE FlushFrames(_, _)
FlushFrames(n, st) ==
  IF n = 0 THEN st
  ELSE LET s1 == FlushFrames(n - 1, st)
           i  == n - 1
           pid == s1.pages[i].page_id_
       IN IF pid # INVALID_PAGE_ID
          THEN [disk  |-> [s1.disk EXCEPT ![pid] = s1.pages[i].data_],
                pages |-> [s1.pages EXCEPT ![i].is_dirty_ = FALSE],
                log   |-> s1.log \o <<Ev("WritePage", pid, s1.pages[i].data_)>>]
          ELSE s1

\* BufferPoolManagerInstance::FlushAllPgsImp
FlushAllPgsImp ==
  LET st == FlushFrames(PoolSize, [disk |-> disk, pages |-> pages_, log |-> << >>]) IN
  /\ UNCHANGED treeVars
  /\ disk' = st.disk
  /\ pages_' = st.pages
  /\ bpm_log' = st.log
  /\ bpm_ret' = Ret("FlushAllPages", INVALID_PAGE_ID, FALSE, TRUE, NoFrame)
  /\ UNCHANGED <<free_list_, page_table_, replacer_, next_page_id_>>

\* BufferPoolManagerInstance::DeletePgImp
DeletePgImp(page_id) ==
  /\ UNCHANGED treeVars
  /\ UNCHANGED <<next_page_id_, disk>>
  /\ IF Resident(page_id)
     THEN LET f == page_table_[page_id] IN
          IF pages_[f].pin_count_ > 0
          THEN /\ bpm_ret' = Ret("DeletePage", page_id, FALSE, FALSE, f)
               /\ bpm_log' = << >>
               /\ UNCHANGED <<pages_, free_list_, page_table_, replacer_>>
          ELSE /\ page_table_' = [page_table_ EXCEPT ![page_id] = NoFrame]
               /\ replacer_' = ReplacerRemove(replacer_, f)
               /\ free_list_' = Append(free_list_, f)
               /\ pages_' = [pages_ EXCEPT ![f] = FreeFrame]
               /\ bpm_log' = <<Ev("PageTableRemove", page_id, 0),
                               Ev("ResetMemory", page_id, 0)>>
               /\ bpm_ret' = Ret("DeletePage", page_id, FALSE, TRUE, f)
     ELSE /\ bpm_ret' = Ret("DeletePage", page_id, FALSE, TRUE, NoFrame)
          /\ bpm_log' = << >>
          /\ UNCHANGED <<pages_, free_list_, page_table_, replacer_>>

\* A caller that holds a pin writes bytes into the page through GetData()
WriteData(page_id, d) ==
  /\ UNCHANGED treeVars
  /\ Resident(page_id)
  /\ pages_[page_table_[page_id]].pin_count_ > 0
  /\ pages_[page_table_[page_id]].data_ # d
  /\ pages_' = [pages_ EXCEPT ![page_table_[page_id]].data_ = d]
  /\ bpm_ret' = Ret("WriteData", page_id, FALSE, TRUE, page_table_[page_id])
  /\ bpm_log' = << >>
  /\ UNCHANGED <<free_list_, page_table_, replacer_, next_page_id_, disk>>

InitBPM ==
  /\ pages_ = [f \in Frames |-> FreeFrame]
  /\ free_list_ = InitialFreeList(PoolSize)
  /\ page_table_ = [p \in PageIds |-> NoFrame]
  /\ replacer_ = NewReplacer
  /\ next_page_id_ = 0
  /\ disk = [p \in PageIds |-> 0]
  /\ bpm_ret = Ret("Init", INVALID_PAGE_ID, FALSE, TRUE, NoFrame)
  /\ bpm_log = << >>
  \* no index is built on the pool in this specification
  /\ tree = << >> /\ kv = << >> /\ bt_ret = << >> /\ thr = << >>

NextBPM ==
  \/ NewPgImp
  \/ \E p \in PageIds : p < next_page_id_ /\ FetchPgImp(p)
  \/ \E p \in PageIds, b \in BOOLEAN : UnpinPgImp(p, b)
  \/ \E p \in PageIds : FlushPgImp(p)
  \/ FlushAllPgsImp
  \/ \E p \in PageIds : DeletePgImp(p)
  \/ \E p \in PageIds, d \in DataValues : WriteData(p, d)

SpecBPM == InitBPM /\ [][NextBPM]_vars

\* ========================================================================
\* Claims about the buffer pool (checked under SpecBPM)
\* ========================================================================
AllPinned == \A f \in Frames : pages_[f].pin_count_ > 0

\* the step is a NewPage call, or a FetchPage call of a page that is not resident
AcquireStep ==
  \/ bpm_ret'.op = "NewPage"
  \/ bpm_ret'.op = "FetchPage" /\ ~Resident(bpm_ret'.page_id)

MetadataUnchanged ==
  UNCHANGED <<pages_, free_list_, page_table_, replacer_, next_page_id_>>

\* C7: NewPage / FetchPage-miss use the free list first and evict only when it
\* is empty; they return null exactly when the free list is empty and every
\* frame is pinned, and then change no metadata; a FetchPage hit never fails.
C7_AcquireFrame ==
  [][ /\ AcquireStep =>
          /\ (~bpm_ret'.ok) <=> (free_list_ = << >> /\ AllPinned)
          /\ ~bpm_ret'.ok => MetadataUnchanged
          /\ (bpm_ret'.ok /\ free_list_ # << >>) =>
                /\ bpm_ret'.frame = Head(free_list_)
                /\ free_list_' = Tail(free_list_)
                /\ \A p \in PageIds : Resident(p) => page_table_'[p] = page_table_[p]
                /\ ReplacerSize(replacer_') = ReplacerSize(replacer_)
          /\ (bpm_ret'.ok /\ free_list_ = << >>) =>
                /\ pages_[bpm_ret'.frame].pin_count_ = 0
                /\ IsEvictable(replacer_, bpm_ret'.frame)
                /\ page_table_'[pages_[bpm_ret'.frame].page_id_] = NoFrame
                /\ free_list_' = << >>
      /\ (bpm_ret'.op = "FetchPage" /\ Resident(bpm_ret'.page_id)) => bpm_ret'.ok
    ]_bpmVars

\* a NewPage or FetchPage has just returned null after the pool filled up
C7_Witness ==
  /\ bpm_ret.op \in {"NewPage", "FetchPage"}
  /\ ~bpm_ret.ok
  /\ free_list_ = << >>
  /\ AllPinned

\* C8: UnpinPage fails without effect on a non-resident page or at pin count 0;
\* otherwise it decrements the pin count by one, ORs the dirty flag with
\* is_dirty, and makes the frame evictable exactly when the count reaches 0.
C8_UnpinPage ==
  [][ bpm_ret'.op = "UnpinPage" =>
        LET p == bpm_ret'.page_id
            f == page_table_[p]
        IN IF ~Resident(p) \/ pages_[f].pin_count_ = 0
           THEN /\ ~bpm_ret'.ok
                /\ UNCHANGED <<pages_, free_list_, page_table_, replacer_,
                               next_page_id_, disk>>
           ELSE /\ bpm_ret'.ok
                /\ pages_'[f].pin_count_ = pages_[f].pin_count_ - 1
                /\ pages_'[f].is_dirty_ = (pages_[f].is_dirty_ \/ bpm_ret'.is_dirty)
                /\ pages_'[f].page_id_ = p
                /\ pages_'[f].data_ = pages_[f].data_
                /\ \A g \in Frames \ {f} : pages_'[g] = pages_[g]
                /\ ~IsEvictable(replacer_, f)
                /\ IsEvictable(replacer_', f) <=> (pages_'[f].pin_count_ = 0)
                /\ ReplacerSize(replacer_') =
                     ReplacerSize(replacer_) + (IF pages_'[f].pin_count_ = 0 THEN 1 ELSE 0)
                /\ UNCHANGED <<free_list_, page_table_, next_page_id_, disk>>
    ]_bpmVars

\* an unpin with is_dirty = false has just succeeded on a dirty page that
\* stays pinned by another user
C8_Witness ==
  /\ bpm_ret.op = "UnpinPage"
  /\ bpm_ret.ok
  /\ ~bpm_ret.is_dirty
  /\ pages_[bpm_ret.frame].is_dirty_
  /\ pages_[bpm_ret.frame].pin_count_ = 1

\* C9: DeletePage refuses a pinned page without effect; frees an unpinned
\* resident page (page table, replacer, frame reset, free list); returns true
\* without effect on a non-resident page.
C9_DeletePage ==
  [][ bpm_ret'.op = "DeletePage" =>
        LET p == bpm_ret'.page_id
            f == page_table_[p]
        IN IF Resident(p) /\ pages_[f].pin_count_ > 0
           THEN /\ ~bpm_ret'.ok
                /\ UNCHANGED <<pages_, free_list_, page_table_, replacer_,
                               next_page_id_, disk>>
           ELSE IF Resident(p)
           THEN /\ bpm_ret'.ok
                /\ page_table_' = [page_table_ EXCEPT ![p] = NoFrame]
                /\ f \notin Tracked(replacer_')
                /\ f \notin SeqToSet(replacer_'.history_list_)
                /\ f \notin SeqToSet(replacer_'.cache_list_)
                /\ ReplacerSize(replacer_') = ReplacerSize(replacer_) - 1
                /\ pages_'[f].page_id_ = INVALID_PAGE_ID
                /\ pages_'[f].pin_count_ = 0
                /\ ~pages_'[f].is_dirty_
                /\ free_list_' = Append(free_list_, f)
                /\ \A g \in Frames \ {f} : pages_'[g] = pages_[g]
           ELSE /\ bpm_ret'.ok
                /\ UNCHANGED <<pages_, free_list_, page_table_, replacer_>>
    ]_bpmVars

\* a resident, unpinned page has just been deleted and its frame freed
C9_Witness ==
  /\ bpm_ret.op = "DeletePage"
  /\ bpm_ret.ok
  /\ bpm_ret.frame # NoFrame
  /\ free_list_ # << >>
  /\ free_list_[Len(free_list_)] = bpm_ret.frame
  /\ replacer_.current_timestamp_ >= 2

\* the step evicts frame f while its dirty flag is set
EvictsDirty(f) ==
  /\ AcquireStep
  /\ bpm_ret'.ok
  /\ free_list_ = << >>
  /\ bpm_ret'.frame = f
  /\ pages_[f].is_dirty_

\* C10: when NewPage or FetchPage evicts a dirty victim, WritePage(old id,
\* frame bytes) comes first, then the page-table removal, then the overwrite of
\* the frame's bytes; the disk copy of the evicted page is its last contents.
C10_DirtyEviction ==
  [][ \A f \in Frames : EvictsDirty(f) =>
        LET old == pages_[f].page_id_ IN
        /\ Len(bpm_log') = 3
        /\ bpm_log'[1] = Ev("WritePage", old, pages_[f].data_)
        /\ bpm_log'[2] = Ev("PageTableRemove", old, 0)
        /\ bpm_log'[3].ev \in {"ResetMemory", "ReadPage"}
        /\ disk'[old] = pages_[f].data_
        /\ ~pages_'[f].is_dirty_
    ]_bpmVars

\* a dirty page with non-zero bytes has been evicted and its bytes are on disk
C10_Witness ==
  /\ bpm_ret.op \in {"NewPage", "FetchPage"}
  /\ bpm_ret.ok
  /\ Len(bpm_log) = 3
  /\ bpm_log[1].ev = "WritePage"
  /\ bpm_log[1].data # 0
  /\ disk[bpm_log[1].page] = bpm_log[1].data
  /\ ~Resident(bpm_log[1].page)

\* the step takes the dirty flag, or the page id, from a dirty frame f
LosesDirty(f) ==
  /\ pages_[f].page_id_ # INVALID_PAGE_ID
  /\ pages_[f].is_dirty_
  /\ (~pages_'[f].is_dirty_ \/ pages_'[f].page_id_ # pages_[f].page_id_)

\* the step writes frame f's bytes to disk under the page id f holds
WritesBack(f) ==
  /\ \E i \in 1 .. Len(bpm_log') :
        bpm_log'[i] = Ev("WritePage", pages_[f].page_id_, pages_[f].data_)
  /\ disk'[pages_[f].page_id_] = pages_[f].data_

\* the step is the DeletePage call that frees frame f, and writes nothing
DiscardsDeleted(f) ==
  /\ bpm_ret' = Ret("DeletePage", pages_[f].page_id_, FALSE, TRUE, f)
  /\ pages_[f].pin_count_ = 0
  /\ disk' = disk

\* C11 (as stated): the dirty flag of a frame holding page p is never cleared,
\* and its page id never changed, in a step that does not write the frame's
\* bytes to disk under p -- DeletePage included.
C11_WrittenBeforeReplaced ==
  [][ \A f \in Frames : LosesDirty(f) => WritesBack(f) ]_bpmVars

\* C11 (amended): a dirty frame loses its dirty flag or its page id only in a
\* step that writes its bytes to disk under its page id (eviction in NewPage /
\* FetchPage, FlushPage, FlushAllPages), or in the DeletePage call that frees
\* the unpinned page, which discards the bytes and writes nothing.
C11_WrittenOrDeleted ==
  [][ \A f \in Frames : LosesDirty(f) => (WritesBack(f) \/ DiscardsDeleted(f)) ]_bpmVars

\* a FetchPage has just evicted a dirty page, whose bytes are now on disk
C11_Witness ==
  /\ bpm_ret.op = "FetchPage"
  /\ bpm_ret.ok
  /\ Len(bpm_log) = 3
  /\ bpm_log[1].ev = "WritePage"
  /\ bpm_log[1].data = 1
  /\ disk[bpm_log[1].page] = 1

\* C12: the page table and the frames are in bijection on the resident set:
\* page_table[p] = f implies frames[f].page_id = p, every frame with a valid
\* page id p has page_table[p] = that frame, and no two frames hold the same
\* page id.
C12_Bijection ==
  /\ \A p \in PageIds :
        Resident(p) => page_table_[p] \in Frames /\ pages_[page_table_[p]].page_id_ = p
  /\ \A f \in Frames :
        pages_[f].page_id_ # INVALID_PAGE_ID =>
          pages_[f].page_id_ \in PageIds /\ page_table_[pages_[f].page_id_] = f
  /\ \A f, g \in Frames :
        (f # g /\ pages_[f].page_id_ # INVALID_PAGE_ID) =>
          pages_[f].page_id_ # pages_[g].page_id_

\* every frame holds a page, and a page that was resident has been evicted
C12_Witness ==
  /\ \A f \in Frames : pages_[f].page_id_ # INVALID_PAGE_ID
  /\ \E i \in 1 .. Len(bpm_log) :
        bpm_log[i].ev = "PageTableRemove" /\ ~Resident(bpm_log[i].page)

FreeFrames == SeqToSet(free_list_)
EvictableFrames == { f \in Frames : IsEvictable(replacer_, f) }
PinnedFrames == { f \in Frames : pages_[f].pin_count_ > 0 }

\* C13: the frames in the free list, the frames evictable in the replacer and
\* the frames with pin count > 0 are pairwise disjoint and together are all
\* pool_size frames; the free list holds no frame twice.
C13_FramePartition ==
  /\ FreeFrames \cap EvictableFrames = {}
  /\ FreeFrames \cap PinnedFrames = {}
  /\ EvictableFrames \cap PinnedFrames = {}
  /\ FreeFrames \cup EvictableFrames \cup PinnedFrames = Frames
  /\ Cardinality(FreeFrames) = Len(free_list_)

\* a DeletePage has just returned a frame to the free list while another
\* frame is evictable or pinned
C13_Witness ==
  /\ bpm_ret.op = "DeletePage"
  /\ bpm_ret.frame \in FreeFrames
  /\ EvictableFrames \cup PinnedFrames # {}

\* C14: for every frame that holds a valid page id, the pin count is 0 if
\* and only if the frame is marked evictable in the replacer.
C14_PinZeroIffEvictable ==
  \A f \in Frames :
    pages_[f].page_id_ # INVALID_PAGE_ID =>
      ((pages_[f].pin_count_ = 0) <=> IsEvictable(replacer_, f))

\* a page fetched twice and unpinned once (still pinned, not evictable) beside
\* a page whose last pin has been dropped (evictable)
C14_Witness ==
  \E f, g \in Frames :
    /\ pages_[f].page_id_ # INVALID_PAGE_ID /\ pages_[f].pin_count_ = 0
    /\ IsEvictable(replacer_, f)
    /\ pages_[g].page_id_ # INVALID_PAGE_ID /\ pages_[g].pin_count_ = 1
    /\ ~IsEvictable(replacer_, g)
    /\ bpm_ret = Ret("UnpinPage", pages_[g].page_id_, FALSE, TRUE, g)

\* every pin has been matched by an unpin
Balanced == \A f \in Frames : pages_[f].pin_count_ = 0

SomeResident == \E p \in PageIds : Resident(p)

\* C15: when all resident pages have pin count 0 and at least one page is
\* resident, the replacer's Evict succeeds and returns a frame holding a
\* resident page, so NewPage / FetchPage of a non-resident page gets a frame,
\* also with an empty free list.
C15_BalancedEvict ==
  (Balanced /\ SomeResident) =>
     LET e == ReplacerEvict(replacer_) IN
     /\ e.ok
     /\ e.frame \in Frames
     /\ pages_[e.frame].page_id_ # INVALID_PAGE_ID
     /\ page_table_[pages_[e.frame].page_id_] = e.frame
     /\ AcquireFrame.ok

\* the pool is full, every page has been unpinned again after being fetched
\* more than once, and the free list is empty
C15_Witness ==
  /\ Balanced
  /\ free_list_ = << >>
  /\ bpm_ret.op = "UnpinPage" /\ bpm_ret.ok
  /\ replacer_.current_timestamp_ > PoolSize

\* C16: FlushPage(p) of a resident page writes the frame's bytes to disk
\* under p, clears the dirty flag whether or not it was set, returns true and
\* leaves pin count, page table, free list and replacer alone; of a
\* non-resident page it writes and changes nothing.  FlushAllPages writes and
\* cleans every frame with a valid page id and touches no other frame.
C16_Flush ==
  [][ /\ bpm_ret'.op = "FlushPage" =>
          LET p == bpm_ret'.page_id
              f == page_table_[p]
          IN IF Resident(p)
             THEN /\ bpm_ret'.ok
                  /\ bpm_log' = <<Ev("WritePage", p, pages_[f].data_)>>
                  /\ disk' = [disk EXCEPT ![p] = pages_[f].data_]
                  /\ pages_' = [pages_ EXCEPT ![f].is_dirty_ = FALSE]
                  /\ UNCHANGED <<free_list_, page_table_, replacer_, next_page_id_>>
             ELSE /\ ~bpm_ret'.ok
                  /\ bpm_log' = << >>
                  /\ UNCHANGED <<pages_, free_list_, page_table_, replacer_,
                                 next_page_id_, disk>>
      /\ bpm_ret'.op = "FlushAllPages" =>
          /\ \A f \in Frames :
                IF pages_[f].page_id_ # INVALID_PAGE_ID
                THEN /\ pages_'[f] = [pages_[f] EXCEPT !.is_dirty_ = FALSE]
                     /\ disk'[pages_[f].page_id_] = pages_[f].data_
                     /\ \E i \in 1 .. Len(bpm_log') :
                           bpm_log'[i] = Ev("WritePage", pages_[f].page_id_, pages_[f].data_)
                ELSE pages_'[f] = pages_[f]
          /\ \A p \in PageIds : ~Resident(p) => disk'[p] = disk[p]
          /\ Len(bpm_log') = Cardinality({ f \in Frames : pages_[f].page_id_ # INVALID_PAGE_ID })
          /\ UNCHANGED <<free_list_, page_table_, replacer_, next_page_id_>>
    ]_bpmVars

\* a FlushPage has just written a clean, pinned page whose bytes differed
\* from the disk copy (written through the pin, not yet marked dirty), while
\* another frame keeps its dirty flag
C16_Witness ==
  /\ bpm_ret.op = "FlushPage"
  /\ bpm_ret.ok
  /\ pages_[bpm_ret.frame].pin_count_ > 0
  /\ bpm_log = <<Ev("WritePage", bpm_ret.page_id, 1)>>
  /\ disk[bpm_ret.page_id] = 1
  /\ \E g \in Frames : pages_[g].is_dirty_

\* ========================================================================
\* The replacer called directly (src/unnamed/part_001): RecordAccess,
\* SetEvictable, Evict and Remove with any frame id, also out of range
\* ========================================================================
\* a replacer for frames 0 .. num_frames-1
NewReplacerOf(num_frames) ==
  [NewReplacer EXCEPT !.node_store_ = [f \in 0 .. (num_frames - 1) |-> NoNode]]

\* frame ids given to the calls: -1 and replacer_size_ are out of range
ReplFrameIds == (-1) .. MaxReplFrames

\* static_cast<size_t>(frame_id) < replacer_size_
InRange(r, f) == f \in DOMAIN r.node_store_

\* a call of the replacer and its outcome; fatal: a BUSTUB_ASSERT failed
ReplRet(op, f, set_evictable, ok, fatal) ==
  [op |-> op, frame |-> f, set_evictable |-> set_evictable, ok |-> ok, fatal |-> fatal]

\* BUSTUB_ASSERT(expr, message): the call, and the process, end there when
\* expr is false
AssertionFails(expr) == ~expr

\* mutant: Remove does not look at the evictable bit
RemoveOutcome_AnyTracked(r, f) ==
  IF AssertionFails(InRange(r, f)) THEN "assert"
  ELSE IF f \notin Tracked(r) THEN "none"
  ELSE "purge"

\* what Remove(f) does: "assert" (a failed BUSTUB_ASSERT), "none" (untracked
\* frame), "purge"
RemoveOutcome(r, f) ==
  IF AssertionFails(InRange(r, f)) THEN "assert"
  ELSE IF f \notin Tracked(r) THEN "none"
  ELSE IF ~r.node_store_[f].is_evictable_ /\ AssertionFails(FALSE) THEN "assert"
  ELSE "purge"

\* LRUKReplacer::Evict
EvictCall ==
  LET e == ReplacerEvict(replacer_) IN
  /\ ~bpm_ret.fatal
  /\ replacer_' = e.r
  /\ bpm_ret' = ReplRet("Evict", e.frame, FALSE, e.ok, FALSE)
  /\ UNCHANGED <<pages_, free_list_, page_table_, next_page_id_, disk, bpm_log, treeVars>>

\* LRUKReplacer::RecordAccess
RecordAccessCall(f) ==
  /\ ~bpm_ret.fatal
  /\ replacer_.current_timestamp_ < MaxTimestamp
  /\ IF ~AssertionFails(InRange(replacer_, f))
     THEN /\ replacer_' = ReplacerRecordAccess(replacer_, f)
          /\ bpm_ret' = ReplRet("RecordAccess", f, FALSE, TRUE, FALSE)
     ELSE /\ UNCHANGED replacer_
          /\ bpm_ret' = ReplRet("RecordAccess", f, FALSE, FALSE, TRUE)
  /\ UNCHANGED <<pages_, free_list_, page_table_, next_page_id_, disk, bpm_log, treeVars>>

\* LRUKReplacer::SetEvictable
SetEvictableCall(f, set_evictable) ==
  /\ ~bpm_ret.fatal
  /\ IF ~AssertionFails(InRange(replacer_, f))
     THEN /\ replacer_' = ReplacerSetEvictable(replacer_, f, set_evictable)
          /\ bpm_ret' = ReplRet("SetEvictable", f, set_evictable, TRUE, FALSE)
     ELSE /\ UNCHANGED replacer_
          /\ bpm_ret' = ReplRet("SetEvictable", f, set_evictable, FALSE, TRUE)
  /\ UNCHANGED <<pages_, free_list_, page_table_, next_page_id_, disk, bpm_log, treeVars>>

\* LRUKReplacer::Remove
RemoveCall(f) ==
  /\ ~bpm_ret.fatal
  /\ IF RemoveOutcome(replacer_, f) = "assert"
     THEN /\ UNCHANGED replacer_
          /\ bpm_ret' = ReplRet("Remove", f, FALSE, FALSE, TRUE)
     ELSE /\ replacer_' = ReplacerRemove(replacer_, f)
          /\ bpm_ret' = ReplRet("Remove", f, FALSE, TRUE, FALSE)
  /\ UNCHANGED <<pages_, free_list_, page_table_, next_page_id_, disk, bpm_log, treeVars>>

InitRepl ==
  /\ replacer_ = NewReplacerOf(MaxReplFrames)
  /\ bpm_ret = ReplRet("Init", NoFrame, FALSE, TRUE, FALSE)
  \* no buffer pool and no index around the replacer in this specification
  /\ pages_ = << >> /\ free_list_ = << >> /\ page_table_ = << >>
  /\ next_page_id_ = 0 /\ disk = << >> /\ bpm_log = << >>
  /\ tree = << >> /\ kv = << >> /\ bt_ret = << >> /\ thr = << >>

NextRepl ==
  \/ EvictCall
  \/ \E f \in ReplFrameIds : RecordAccessCall(f)
  \/ \E f \in ReplFrameIds, b \in BOOLEAN : SetEvictableCall(f, b)
  \/ \E f \in ReplFrameIds : RemoveCall(f)

SpecRepl == InitRepl /\ [][NextRepl]_vars

\* ========================================================================
\* Claims about the replacer (checked under SpecRepl)
\* ========================================================================
Evictables(r) == { f \in Tracked(r) : r.node_store_[f].is_evictable_ }

AccessCount(r, f) == Len(r.node_store_[f].history_)

\* the evictable frames with fewer than k recorded accesses
Young(r) == { f \in Evictables(r) : AccessCount(r, f) < ReplacerK }

\* the spec's example after its five accesses, all three frames evictable,
\* and after the first Evict
ExampleState(r) ==
  /\ r.node_store_[0].history_ = <<4, 1>>
  /\ r.node_store_[1].history_ = <<5, 2>>
  /\ r.node_store_[2].history_ = <<3>>
  /\ Evictables(r) = {0, 1, 2}

ExampleStateAfter(r) ==
  /\ r.node_store_[0].history_ = <<4, 1>>
  /\ r.node_store_[1].history_ = <<5, 2>>
  /\ Evictables(r) = {0, 1}
  /\ Tracked(r) = {0, 1}

\* C17: Evict returns false when no frame is evictable; otherwise it evicts a
\* frame with fewer than K accesses if an evictable one exists, else the
\* evictable frame whose oldest retained timestamp is smallest, and removes
\* all state of the victim.  In the example (K=2, accesses (0,1),(1,2),(2,3),
\* (0,4),(1,5), all evictable) Evict yields 2, then 0.
C17_Evict ==
  [][ bpm_ret'.op = "Evict" =>
        IF Evictables(replacer_) = {}
        THEN ~bpm_ret'.ok /\ replacer_' = replacer_
        ELSE LET v == bpm_ret'.frame IN
             /\ bpm_ret'.ok
             /\ v \in Evictables(replacer_)
             /\ IF Young(replacer_) # {}
                THEN v \in Young(replacer_)
                ELSE \A g \in Evictables(replacer_) :
                       KthTimestamp(replacer_, v) <= KthTimestamp(replacer_, g)
             /\ v \notin Tracked(replacer_')
             /\ replacer_'.node_store_[v] = NoNode
             /\ ReplacerSize(replacer_') = ReplacerSize(replacer_) - 1
             /\ \A g \in DOMAIN replacer_.node_store_ :
                   g # v => replacer_'.node_store_[g] = replacer_.node_store_[g]
             /\ ExampleState(replacer_) => v = 2
             /\ ExampleStateAfter(replacer_) => v = 0
    ]_bpmVars

\* the example has run to its end: Evict has yielded 2 and now 0, frame 1 is
\* left with its two accesses
C17_Witness ==
  /\ bpm_ret = ReplRet("Evict", 0, FALSE, TRUE, FALSE)
  /\ Tracked(replacer_) = {1}
  /\ replacer_.node_store_[1].history_ = <<5, 2>>
  /\ replacer_.cache_list_ = <<1>>
  /\ ReplacerSize(replacer_) = 1

\* the timestamp of the first recorded access of a frame with fewer than k
\* accesses (its history holds them all)
FirstAccess(r, f) == KthTimestamp(r, f)

\* C18: among evictable frames with fewer than K accesses, Evict chooses the
\* one whose first recorded access is the earliest, whatever the order in
\* which RecordAccess and SetEvictable were called on them.
C18_EarliestFirstAccess ==
  [][ (bpm_ret'.op = "Evict" /\ Young(replacer_) # {}) =>
        \A g \in Young(replacer_) :
          FirstAccess(replacer_, bpm_ret'.frame) <= FirstAccess(replacer_, g)
    ]_bpmVars

\* the repeated call leaves the replacer as it is
SameValueStep ==
  (/\ bpm_ret'.op = "SetEvictable"
   /\ InRange(replacer_, bpm_ret'.frame)
   /\ IsEvictable(replacer_, bpm_ret'.frame) = bpm_ret'.set_evictable)
  => replacer_' = replacer_

\* Size() counts the evictable frames, and the two victim sets hold them
VictimSets ==
  /\ ReplacerSize(replacer_) = Cardinality(Evictables(replacer_))
  /\ SeqToSet(replacer_.history_list_) = Young(replacer_)
  /\ SeqToSet(replacer_.cache_list_) =
       { f \in Evictables(replacer_) : AccessCount(replacer_, f) = ReplacerK }
  /\ Len(replacer_.history_list_) = Cardinality(SeqToSet(replacer_.history_list_))
  /\ Len(replacer_.cache_list_) = Cardinality(SeqToSet(replacer_.cache_list_))
  /\ \A f \in Tracked(replacer_) : AccessCount(replacer_, f) \in 1 .. ReplacerK

\* C19: Size() equals the number of tracked frames whose evictable bit is
\* set; each of them is in exactly one victim set, the history set with fewer
\* than K accesses and the cache set with K; other frames are in neither; and
\* SetEvictable with the value a frame already has changes nothing.
C19_SizeAndSets ==
  [][ VictimSets /\ VictimSets' /\ SameValueStep ]_bpmVars

\* an evictable frame has just moved to the cache set on its k-th access,
\* beside an evictable frame in the history set and a frame that is not
\* evictable
C19_Witness ==
  /\ bpm_ret.op = "RecordAccess"
  /\ bpm_ret.frame \in SeqToSet(replacer_.cache_list_)
  /\ replacer_.history_list_ # << >>
  /\ Tracked(replacer_) \ Evictables(replacer_) # {}
  /\ ReplacerSize(replacer_) = 2

\* C20: RecordAccess, SetEvictable and Remove with a frame id outside
\* [0, replacer_size) hit a fatal assertion; Remove of a tracked frame that is
\* not evictable hits a fatal assertion and removes nothing; Remove of an
\* untracked frame changes nothing; Remove of an evictable frame decrements
\* Size() by one and purges its history.
C20_Assertions ==
  [][ LET f == bpm_ret'.frame
          op == bpm_ret'.op
      IN
      /\ (op \in {"RecordAccess", "SetEvictable", "Remove"} /\ ~InRange(replacer_, f)) =>
            bpm_ret'.fatal /\ replacer_' = replacer_
      /\ (op \in {"RecordAccess", "SetEvictable"} /\ InRange(replacer_, f)) =>
            ~bpm_ret'.fatal
      /\ (op = "Remove" /\ InRange(replacer_, f)) =>
            IF f \notin Tracked(replacer_)
            THEN ~bpm_ret'.fatal /\ replacer_' = replacer_
            ELSE IF ~IsEvictable(replacer_, f)
            THEN bpm_ret'.fatal /\ replacer_' = replacer_
            ELSE /\ ~bpm_ret'.fatal
                 /\ ReplacerSize(replacer_') = ReplacerSize(replacer_) - 1
                 /\ replacer_'.node_store_[f] = NoNode
                 /\ f \notin SeqToSet(replacer_'.history_list_)
                 /\ f \notin SeqToSet(replacer_'.cache_list_)
                 /\ \A g \in DOMAIN replacer_.node_store_ :
                       g # f => replacer_'.node_store_[g] = replacer_.node_store_[g]
    ]_bpmVars

\* Remove has just failed its assertion on a tracked frame that is not
\* evictable, and the frame is still tracked
C20_Witness ==
  /\ bpm_ret.op = "Remove"
  /\ bpm_ret.fatal
  /\ bpm_ret.frame \in Tracked(replacer_)
  /\ ~IsEvictable(replacer_, bpm_ret.frame)

\* Evict has returned frame f, or Remove(f) has purged it, in this step
Purges(f) ==
  \/ bpm_ret'.op = "Evict" /\ bpm_ret'.ok /\ bpm_ret'.frame = f
  \/ /\ bpm_ret'.op = "Remove" /\ ~bpm_ret'.fatal /\ bpm_ret'.frame = f
     /\ f \in Tracked(replacer_)

\* no entry of node_store_ and of the two lists is left for f
NoStateFor(r, f) ==
  /\ f \notin Tracked(r)
  /\ r.node_store_[f] = NoNode
  /\ f \notin SeqToSet(r.history_list_)
  /\ f \notin SeqToSet(r.cache_list_)

\* C39: after Evict returns frame f, or Remove(f) purges it, the replacer
\* keeps no state for f: SetEvictable(f, true) is ignored and leaves Size()
\* as it is until the next RecordAccess(f), that RecordAccess starts a new
\* history of length 1 (for K > 1 the frame again counts as one with fewer
\* than K accesses), and no frame's retained history exceeds K timestamps.
C39_PurgedFrame ==
  [][ \A f \in DOMAIN replacer_.node_store_ :
        /\ Purges(f) => NoStateFor(replacer_', f)
        /\ (f \notin Tracked(replacer_) /\ bpm_ret'.frame = f) =>
              /\ NoStateFor(replacer_, f)
              /\ bpm_ret'.op = "SetEvictable" =>
                    /\ replacer_' = replacer_
                    /\ ReplacerSize(replacer_') = ReplacerSize(replacer_)
              /\ bpm_ret'.op = "RecordAccess" =>
                    /\ replacer_'.node_store_[f].history_ =
                         <<replacer_'.current_timestamp_>>
                    /\ ~IsEvictable(replacer_', f)
                    /\ f \notin SeqToSet(replacer_'.cache_list_)
                    /\ ReplacerK > 1 => AccessCount(replacer_', f) < ReplacerK
                    /\ ReplacerSize(replacer_') = ReplacerSize(replacer_)
        /\ AccessCount(replacer_', f) <= ReplacerK
    ]_bpmVars

\* frame f has just been accessed and holds that one timestamp; every other
\* frame is tracked with timestamps older than the access before this one,
\* so that access was of f too: f had a history, was purged after it, and
\* starts again
C39_Witness ==
  LET f == bpm_ret.frame IN
  /\ bpm_ret.op = "RecordAccess"
  /\ ~bpm_ret.fatal
  /\ replacer_.node_store_[f].history_ = <<replacer_.current_timestamp_>>
  /\ \A g \in DOMAIN replacer_.node_store_ \ {f} :
        /\ g \in Tracked(replacer_)
        /\ replacer_.node_store_[g].history_[1] < replacer_.current_timestamp_ - 1

\* ========================================================================
\* B+tree pages.  A page is a record; slot i of the code's array_ is element
\* i+1 of keys / vals, and GetSize() is the length of keys.
\*   leaf:     keys[i], vals[i] = key and value of slot i-1
\*   internal: keys[i], vals[i] = key and child page id of slot i-1
\*             (keys[1] is the unused key of slot 0)
\* ========================================================================
TreePageIds == 0 .. MaxTreePageId       \* page 0 is the header page
Keys == 1 .. MaxKey
Values == 1 .. MaxValue
ZeroKey == 0                            \* the key read from zeroed page bytes

NoPage == [kind |-> "none", parent |-> INVALID_PAGE_ID, next |-> INVALID_PAGE_ID,
           max_size |-> 0, keys |-> << >>, vals |-> << >>]

\* BPlusTreeLeafPage::Init
LeafInit(parent_id, max_size) ==
  [kind |-> "leaf", parent |-> parent_id, next |-> INVALID_PAGE_ID,
   max_size |-> max_size, keys |-> << >>, vals |-> << >>]

\* BPlusTreeInternalPage::Init
InternalInit(parent_id, max_size) ==
  [kind |-> "internal", parent |-> parent_id, next |-> INVALID_PAGE_ID,
   max_size |-> max_size, keys |-> << >>, vals |-> << >>]

GetSize(pg) == Len(pg.keys)
IsLeafPage(pg) == pg.kind = "leaf"
\* BPlusTreePage::IsRootPage
IsRootPage(pg) == pg.parent = INVALID_PAGE_ID
\* BPlusTreePage::GetMinSize: ceil((max_size-1)/2) for a leaf, ceil(max_size/2)
\* for an internal page
GetMinSize(pg) ==
  IF IsLeafPage(pg) THEN pg.max_size \div 2 ELSE (pg.max_size + 1) \div 2

KeyAt(pg, i) == pg.keys[i + 1]
ValueAt(pg, i) == pg.vals[i + 1]

InsertAt(s, i, x) == SubSeq(s, 1, i) \o <<x>> \o SubSeq(s, i + 1, Len(s))
RemoveAt(s, i) == SubSeq(s, 1, i) \o SubSeq(s, i + 2, Len(s))

\* BPlusTreeLeafPage::KeyIndex: binary search for the first slot with key >= k
RECURSIVE KeyIndexLoop(_, _, _, _)
KeyIndexLoop(pg, k, left, right) ==
  IF left < right
  THEN LET mid == left + ((right - left) \div 2) IN
       IF KeyAt(pg, mid) < k THEN KeyIndexLoop(pg, k, mid + 1, right)
       ELSE KeyIndexLoop(pg, k, left, mid)
  ELSE left

KeyIndex(pg, k) == KeyIndexLoop(pg, k, 0, GetSize(pg))

\* BPlusTreeLeafPage::Lookup: [found, value]
LeafLookup(pg, k) ==
  LET idx == KeyIndex(pg, k) IN
  IF idx < GetSize(pg) /\ KeyAt(pg, idx) = k
  THEN [found |-> TRUE, value |-> ValueAt(pg, idx)]
  ELSE [found |-> FALSE, value |-> 0]

\* BPlusTreeLeafPage::Insert (the page after the call)
LeafInsert(pg, k, v) ==
  LET idx == KeyIndex(pg, k) IN
  IF idx < GetSize(pg) /\ KeyAt(pg, idx) = k THEN pg
  ELSE [pg EXCEPT !.keys = InsertAt(@, idx, k), !.vals = InsertAt(@, idx, v)]

\* BPlusTreeLeafPage::RemoveAndDeleteRecord (the page after the call)
LeafRemoveAndDeleteRecord(pg, k) ==
  LET idx == KeyIndex(pg, k) IN
  IF idx >= GetSize(pg) \/ KeyAt(pg, idx) # k THEN pg
  ELSE [pg EXCEPT !.keys = RemoveAt(@, idx), !.vals = RemoveAt(@, idx)]

\* BPlusTreeInternalPage::ValueIndex: first slot whose child is v, else -1
RECURSIVE ValueIndexLoop(_, _, _)
ValueIndexLoop(pg, v, i) ==
  IF i >= GetSize(pg) THEN -1
  ELSE IF ValueAt(pg, i) = v THEN i
  ELSE ValueIndexLoop(pg, v, i + 1)

ValueIndex(pg, v) == ValueIndexLoop(pg, v, 0)

\* BPlusTreeInternalPage::Lookup: binary search over slots 1 .. size-1
RECURSIVE InternalLookupLoop(_, _, _, _)
InternalLookupLoop(pg, k, left, right) ==
  IF left < right
  THEN LET mid == left + ((right - left) \div 2) IN
       IF k < KeyAt(pg, mid) THEN InternalLookupLoop(pg, k, left, mid)
       ELSE InternalLookupLoop(pg, k, mid + 1, right)
  ELSE left

InternalLookup(pg, k) == ValueAt(pg, InternalLookupLoop(pg, k, 1, GetSize(pg)) - 1)

\* BPlusTreeInternalPage::InsertNodeAfter (the page after the call)
InsertNodeAfter(pg, old_value, new_key, new_value) ==
  LET idx == ValueIndex(pg, old_value) + 1 IN
  [pg EXCEPT !.keys = InsertAt(@, idx, new_key), !.vals = InsertAt(@, idx, new_value)]

\* BPlusTreeInternalPage::Remove(index)
InternalRemove(pg, index) ==
  [pg EXCEPT !.keys = RemoveAt(@, index), !.vals = RemoveAt(@, index)]

\* ========================================================================
\* B+tree (src/project2/b_plus_tree.cpp).  The tree's operations are written
\* as operators on a record T of everything a call reads and writes:
\*   pages      page id -> page (the bytes behind the buffer pool)
\*   root       root_page_id_
\*   next_pid   the next page id NewPage hands out
\*   pin        page id -> pin count in the buffer pool
\*   deleted    page ids freed by a successful DeletePage
\*   header     the header-page record of this index: [present, root]
\*   root_latch 1 while root_latch_ is held in write mode, else 0
\*   root_readers  the number of holders of root_latch_ in read mode
\*   wlatch     page ids whose page latch is held in write mode
\*   rlatch     page id -> the number of holders of its page latch in read mode
\*   page_set   the transaction's page set (NullMark = the nullptr marker)
\*   budget     NewPage calls that can still get a frame (-1: no limit)
\*   thrown     an OUT_OF_MEMORY exception is propagating
\*   fault      accesses with no defined result (use of a missing page, ...)
\*   unpin_false  an UnpinPage call of the tree has returned false
\* ========================================================================
NullMark == -2
\* a call that starts with at most MaxTreePageId pages allocates fewer than that
PageSlots == 0 .. (2 * MaxTreePageId)

Fault(T, what) == [T EXCEPT !.fault = @ \cup {what}]

\* BufferPoolManager::FetchPage of a page the pool holds or can read back
FetchPage(T, p) ==
  IF p \notin PageSlots \ {INVALID_PAGE_ID} THEN Fault(T, "fetch of an invalid page id")
  ELSE IF p \in T.deleted THEN Fault([T EXCEPT !.pin[p] = @ + 1], "fetch of a deleted page")
  ELSE [T EXCEPT !.pin[p] = @ + 1]

\* mutant: UnpinPage leaves the pin count as it is
UnpinPage_Keeps(T, p) == T

\* BufferPoolManager::UnpinPage (returns false, changing nothing, for a page
\* that is not resident or has pin count 0; the tree ignores the result,
\* unpin_false keeps it)
UnpinPage(T, p) ==
  IF p \notin PageSlots THEN [T EXCEPT !.unpin_false = TRUE]
  ELSE IF T.pin[p] = 0 THEN [T EXCEPT !.unpin_false = TRUE]
  ELSE [T EXCEPT !.pin[p] = @ - 1]

\* BufferPoolManager::DeletePage: refused while the page is pinned
DeletePage(T, p) ==
  IF p \notin PageSlots THEN T
  ELSE IF T.pin[p] > 0 THEN T
  ELSE [T EXCEPT !.deleted = @ \cup {p}, !.pages[p] = NoPage]

\* BufferPoolManager::NewPage: [ok, pid, T]; the page comes back pinned and zeroed
NewPage(T) ==
  IF T.budget = 0 THEN [ok |-> FALSE, pid |-> INVALID_PAGE_ID, T |-> T]
  ELSE [ok |-> TRUE, pid |-> T.next_pid,
        T |-> [T EXCEPT !.next_pid = @ + 1,
                        !.pin[T.next_pid] = 1,
                        !.pages[T.next_pid] = NoPage,
                        !.budget = IF @ > 0 THEN @ - 1 ELSE @]]

Throw(T) == [T EXCEPT !.thrown = TRUE]

\* HeaderPage::InsertRecord / UpdateRecord: insert fails when the record
\* exists, update fails when it does not
HeaderInsertRecord(h, root) == IF h.present THEN h ELSE [present |-> TRUE, root |-> root]
HeaderUpdateRecord(h, root) == IF h.present THEN [h EXCEPT !.root = root] ELSE h

\* BPlusTree::UpdateRootPageId
UpdateRootPageId(T, insert_record) ==
  LET T1 == FetchPage(T, HEADER_PAGE_ID)
      T2 == [T1 EXCEPT !.header = IF insert_record # 0
                                  THEN HeaderInsertRecord(@, T.root)
                                  ELSE HeaderUpdateRecord(@, T.root)]
  IN UnpinPage(T2, HEADER_PAGE_ID)

\* BPlusTree::IsEmpty
IsEmpty(T) == T.root = INVALID_PAGE_ID

PopBack(s) == SubSeq(s, 1, Len(s) - 1)

\* the element of a set of one element (with { f(c) : c \in {e} }, the value
\* of e is computed once)
TheOne(S) == CHOOSE x \in S : TRUE

\* the descent loop of FindLeafPage for INSERT / DELETE from page pid, which
\* is fetched, write-latched and in the page set: [T, leaf]
RECURSIVE DescendWrite(_, _, _)
DescendWrite(T, pid, key) ==
  IF T.pages[pid].kind # "internal"
  THEN [T |-> [T EXCEPT !.page_set = PopBack(@)], leaf |-> pid]
  ELSE LET child == InternalLookup(T.pages[pid], key)
           T1 == FetchPage(T, child)
       IN IF T1.fault # {} THEN [T |-> T1, leaf |-> INVALID_PAGE_ID]
          ELSE DescendWrite([T1 EXCEPT !.wlatch = @ \cup {child},
                                       !.page_set = Append(@, child)], child, key)

\* BPlusTree::FindLeafPage with op = INSERT or DELETE and a transaction:
\* [T, leaf]; leaf is INVALID_PAGE_ID for the nullptr return
FindLeafPageWrite(T, key) ==
  LET T1 == [T EXCEPT !.root_latch = 1, !.page_set = Append(@, NullMark)] IN
  IF IsEmpty(T1)
  THEN [T |-> [T1 EXCEPT !.page_set = PopBack(@), !.root_latch = 0],
        leaf |-> INVALID_PAGE_ID]
  ELSE LET T2 == FetchPage(T1, T1.root) IN
       IF T2.fault # {} THEN [T |-> T2, leaf |-> INVALID_PAGE_ID]
       ELSE DescendWrite([T2 EXCEPT !.wlatch = @ \cup {T1.root},
                                    !.page_set = Append(@, T1.root)], T1.root, key)

\* BPlusTree::UnlockUnpinPages (the deleted page set is never filled)
RECURSIVE ReleasePageSet(_, _)
ReleasePageSet(T, ps) ==
  IF ps = << >> THEN [T EXCEPT !.page_set = << >>]
  ELSE IF Head(ps) = NullMark
       THEN ReleasePageSet([T EXCEPT !.root_latch = 0], Tail(ps))
       ELSE ReleasePageSet(UnpinPage([T EXCEPT !.wlatch = @ \ {Head(ps)}], Head(ps)),
                           Tail(ps))

UnlockUnpinPages(T) == ReleasePageSet(T, T.page_set)

\* page->WUnlatch(); UnpinPage(page->GetPageId(), ...) of the returned leaf
ReleaseLeaf(T, leaf) == UnpinPage([T EXCEPT !.wlatch = @ \ {leaf}], leaf)

\* BPlusTree::StartNewTree
StartNewTree(T, key, value) ==
  LET n == NewPage(T) IN
  IF ~n.ok THEN Throw(n.T)
  ELSE LET T1 == [n.T EXCEPT !.pages[n.pid] =
                     LeafInsert(LeafInit(INVALID_PAGE_ID, T.leaf_max_size), key, value),
                             !.root = n.pid]
       IN UnpinPage(UpdateRootPageId(T1, 1), n.pid)

\* BPlusTreeLeafPage::MoveHalfTo, with CopyNFrom: the two pages afterwards
LeafMoveHalfTo(pg, recipient, recipient_id) ==
  LET start_idx == GetSize(pg) \div 2 IN
  [from |-> [pg EXCEPT !.keys = SubSeq(@, 1, start_idx),
                       !.vals = SubSeq(@, 1, start_idx),
                       !.next = recipient_id],
   to   |-> [recipient EXCEPT !.keys = @ \o SubSeq(pg.keys, start_idx + 1, Len(pg.keys)),
                              !.vals = @ \o SubSeq(pg.vals, start_idx + 1, Len(pg.vals)),
                              !.next = pg.next]]

\* BPlusTree::Split(LeafPage *): [T, new] with new = INVALID_PAGE_ID on a throw
SplitLeaf(T, leaf) ==
  LET n == NewPage(T) IN
  IF ~n.ok THEN [T |-> Throw(n.T), new |-> INVALID_PAGE_ID]
  ELSE LET mv == LeafMoveHalfTo(T.pages[leaf],
                                LeafInit(T.pages[leaf].parent, T.leaf_max_size), n.pid)
       IN [T |-> [n.T EXCEPT !.pages[leaf] = mv.from, !.pages[n.pid] = mv.to],
           new |-> n.pid]

\* child->SetParentPageId(parent) through FetchPage / UnpinPage of the child
\* (BPlusTreeInternalPage::CopyNFrom, CopyLastFrom, CopyFirstFrom)
Reparent(T, child, parent) ==
  LET T1 == FetchPage(T, child) IN
  IF child \notin PageSlots THEN T1
  ELSE UnpinPage([T1 EXCEPT !.pages[child].parent = parent], child)

RECURSIVE ReparentAll(_, _, _)
ReparentAll(T, children, parent) ==
  IF children = << >> THEN T
  ELSE ReparentAll(Reparent(T, Head(children), parent), Tail(children), parent)

\* mutant: the moved children keep their parent pointer
CopyNFrom_NoReparent(T, to, ks, vs) ==
  [T EXCEPT !.pages[to].keys = @ \o ks, !.pages[to].vals = @ \o vs]

\* BPlusTreeInternalPage::CopyNFrom: append the entries to page `to` and
\* repoint every moved child
CopyNFrom(T, to, ks, vs) ==
  ReparentAll([T EXCEPT !.pages[to].keys = @ \o ks, !.pages[to].vals = @ \o vs], vs, to)

\* BPlusTreeInternalPage::MoveHalfTo
InternalMoveHalfTo(T, from, to) ==
  LET pg == T.pages[from]
      start_idx == GetSize(pg) \div 2
      T1 == CopyNFrom(T, to, SubSeq(pg.keys, start_idx + 1, Len(pg.keys)),
                             SubSeq(pg.vals, start_idx + 1, Len(pg.vals)))
  IN [T1 EXCEPT !.pages[from].keys = SubSeq(@, 1, start_idx),
                !.pages[from].vals = SubSeq(@, 1, start_idx)]

\* BPlusTree::Split(InternalPage *): [T, new]
SplitInternal(T, page) ==
  LET n == NewPage(T) IN
  IF ~n.ok THEN [T |-> Throw(n.T), new |-> INVALID_PAGE_ID]
  ELSE LET T1 == [n.T EXCEPT !.pages[n.pid] =
                     InternalInit(T.pages[page].parent, T.internal_max_size)]
       IN [T |-> InternalMoveHalfTo(T1, page, n.pid), new |-> n.pid]

\* BPlusTreeInternalPage::PopulateNewRoot on a freshly initialised page
PopulateNewRoot(pg, old_value, new_key, new_value) ==
  [pg EXCEPT !.keys = <<ZeroKey, new_key>>, !.vals = <<old_value, new_value>>]

\* BPlusTree::InsertIntoParent
RECURSIVE InsertIntoParent(_, _, _, _)
InsertIntoParent(T, old_node, key, new_node) ==
  IF IsRootPage(T.pages[old_node])
  THEN LET n == NewPage(T) IN
       IF ~n.ok THEN Throw(n.T)
       ELSE LET T1 == [n.T EXCEPT
                         !.pages[n.pid] =
                            PopulateNewRoot(InternalInit(INVALID_PAGE_ID, T.internal_max_size),
                                            old_node, key, new_node),
                         !.pages[old_node].parent = n.pid,
                         !.pages[new_node].parent = n.pid,
                         !.root = n.pid]
            IN UnpinPage(UpdateRootPageId(T1, 0), n.pid)
  ELSE LET parent_id == T.pages[old_node].parent
           T1 == FetchPage(T, parent_id)
           T2 == [T1 EXCEPT !.pages[new_node].parent = parent_id,
                            !.pages[parent_id] =
                               InsertNodeAfter(@, old_node, key, new_node)]
       IN IF T1.fault # {} THEN T1
          ELSE IF GetSize(T2.pages[parent_id]) >= T.internal_max_size
          THEN LET sp == SplitInternal(T2, parent_id) IN
               IF sp.T.thrown THEN sp.T
               ELSE LET T3 == InsertIntoParent(sp.T, parent_id,
                                               KeyAt(sp.T.pages[sp.new], 0), sp.new)
                    IN IF T3.thrown THEN T3
                       ELSE UnpinPage(UnpinPage(T3, sp.new), parent_id)
          ELSE UnpinPage(T2, parent_id)

\* BPlusTree::InsertIntoLeaf after its FindLeafPage call returned `leaf`
\* (write-latched, pinned, its ancestors in the page set), up to the release
\* of the latches: [T, ret]
InsertChange(T, leaf, key, value) ==
  IF LeafLookup(T.pages[leaf], key).found
  THEN [T |-> T, ret |-> FALSE]
  ELSE LET T1 == [T EXCEPT !.pages[leaf] = LeafInsert(@, key, value)]
           T2 == IF GetSize(T1.pages[leaf]) >= T.leaf_max_size
                 THEN LET sp == SplitLeaf(T1, leaf) IN
                      IF sp.T.thrown THEN sp.T
                      ELSE LET T3 == InsertIntoParent(sp.T, leaf,
                                                      KeyAt(sp.T.pages[sp.new], 0), sp.new)
                           IN IF T3.thrown THEN T3 ELSE UnpinPage(T3, sp.new)
                 ELSE T1
       IN [T |-> T2, ret |-> ~T2.thrown]

\* the end of InsertIntoLeaf: UnlockUnpinPages(transaction), page->WUnlatch(),
\* UnpinPage
InsertRelease(T, leaf) == ReleaseLeaf(UnlockUnpinPages(T), leaf)

\* BPlusTree::InsertIntoLeaf after its FindLeafPage call returned `leaf`:
\* [T, ret]
InsertAtLeaf(T, leaf, key, value) ==
  TheOne({ IF c.T.thrown THEN c ELSE [T |-> InsertRelease(c.T, leaf), ret |-> c.ret] :
             c \in {InsertChange(T, leaf, key, value)} })

\* BPlusTree::InsertIntoLeaf: [T, ret]
InsertIntoLeaf(T, key, value) ==
  LET fl == FindLeafPageWrite(T, key) IN
  IF fl.leaf = INVALID_PAGE_ID THEN [T |-> fl.T, ret |-> FALSE]
  ELSE InsertAtLeaf(fl.T, fl.leaf, key, value)

\* BPlusTree::Insert: [T, ret]
InsertOp(T, key, value) ==
  LET T1 == [T EXCEPT !.root_latch = 1] IN
  IF IsEmpty(T1)
  THEN LET T2 == StartNewTree(T1, key, value) IN
       IF T2.thrown THEN [T |-> T2, ret |-> FALSE]
       ELSE [T |-> [T2 EXCEPT !.root_latch = 0], ret |-> TRUE]
  ELSE InsertIntoLeaf([T1 EXCEPT !.root_latch = 0], key, value)

\* BPlusTree::AdjustRoot: [T, del]
AdjustRoot(T, old_root) ==
  LET pg == T.pages[old_root] IN
  IF IsLeafPage(pg) /\ GetSize(pg) = 0
  THEN [T |-> UpdateRootPageId([T EXCEPT !.root = INVALID_PAGE_ID], 0), del |-> TRUE]
  ELSE IF ~IsLeafPage(pg) /\ GetSize(pg) = 1
  THEN LET new_root == ValueAt(pg, 0)
           T1 == FetchPage(T, new_root)
           T2 == [T1 EXCEPT !.pages[new_root].parent = INVALID_PAGE_ID,
                            !.root = new_root]
       IN [T |-> UnpinPage(UpdateRootPageId(T2, 0), new_root), del |-> TRUE]
  ELSE [T |-> T, del |-> FALSE]

SetKeyAt(pg, i, k) == [pg EXCEPT !.keys[i + 1] = k]

\* BPlusTreeLeafPage::MoveLastToFrontOf with CopyFirstFrom
LeafMoveLastToFrontOf(T, from, to) ==
  LET pg == T.pages[from]
      n  == GetSize(pg)
  IN [T EXCEPT !.pages[to].keys = <<pg.keys[n]>> \o @,
               !.pages[to].vals = <<pg.vals[n]>> \o @,
               !.pages[from].keys = SubSeq(@, 1, n - 1),
               !.pages[from].vals = SubSeq(@, 1, n - 1)]

\* BPlusTreeLeafPage::MoveFirstToEndOf with CopyLastFrom
LeafMoveFirstToEndOf(T, from, to) ==
  LET pg == T.pages[from] IN
  [T EXCEPT !.pages[to].keys = Append(@, pg.keys[1]),
            !.pages[to].vals = Append(@, pg.vals[1]),
            !.pages[from].keys = Tail(@),
            !.pages[from].vals = Tail(@)]

\* BPlusTreeLeafPage::MoveAllTo with CopyNFrom
LeafMoveAllTo(T, from, to) ==
  LET pg == T.pages[from] IN
  [T EXCEPT !.pages[to].keys = @ \o pg.keys,
            !.pages[to].vals = @ \o pg.vals,
            !.pages[to].next = pg.next,
            !.pages[from].keys = << >>,
            !.pages[from].vals = << >>]

\* BPlusTreeInternalPage::CopyFirstFrom: the pair goes to slot 0 as it is
CopyFirstFrom(T, to, k, v) ==
  Reparent([T EXCEPT !.pages[to].keys = <<k>> \o @, !.pages[to].vals = <<v>> \o @], v, to)

\* BPlusTreeInternalPage::MoveLastToFrontOf
InternalMoveLastToFrontOf(T, from, to, middle_key) ==
  LET pg == T.pages[from]
      n  == GetSize(pg)
      T1 == CopyFirstFrom(T, to, middle_key, pg.vals[n])
  IN [T1 EXCEPT !.pages[from].keys = SubSeq(@, 1, n - 1),
                !.pages[from].vals = SubSeq(@, 1, n - 1)]

\* BPlusTreeInternalPage::CopyLastFrom
CopyLastFrom(T, to, k, v) ==
  Reparent([T EXCEPT !.pages[to].keys = Append(@, k), !.pages[to].vals = Append(@, v)], v, to)

\* BPlusTreeInternalPage::MoveFirstToEndOf
InternalMoveFirstToEndOf(T, from, to, middle_key) ==
  LET pg == T.pages[from]
      T1 == CopyLastFrom(T, to, middle_key, pg.vals[1])
  IN [T1 EXCEPT !.pages[from].keys = Tail(@), !.pages[from].vals = Tail(@)]

\* BPlusTreeInternalPage::MoveAllTo
InternalMoveAllTo(T, from, to, middle_key) ==
  LET pg == T.pages[from]
      ks == <<middle_key>> \o Tail(pg.keys)
      T1 == CopyNFrom([T EXCEPT !.pages[from].keys = ks], to, ks, pg.vals)
  IN [T1 EXCEPT !.pages[from].keys = << >>, !.pages[from].vals = << >>]

\* BPlusTree::Redistribute
Redistribute(T, neighbor, node, parent, index, from_left) ==
  IF IsLeafPage(T.pages[node])
  THEN IF from_left
       THEN LET T1 == LeafMoveLastToFrontOf(T, neighbor, node) IN
            [T1 EXCEPT !.pages[parent] = SetKeyAt(@, index, KeyAt(T1.pages[node], 0))]
       ELSE LET T1 == LeafMoveFirstToEndOf(T, neighbor, node) IN
            [T1 EXCEPT !.pages[parent] = SetKeyAt(@, index + 1, KeyAt(T1.pages[neighbor], 0))]
  ELSE IF from_left
       THEN LET middle_key == KeyAt(T.pages[parent], index)
                T1 == InternalMoveLastToFrontOf(T, neighbor, node, middle_key)
            IN [T1 EXCEPT !.pages[parent] = SetKeyAt(@, index, KeyAt(T1.pages[node], 0))]
       ELSE LET middle_key == KeyAt(T.pages[parent], index + 1)
                T1 == InternalMoveFirstToEndOf(T, neighbor, node, middle_key)
            IN [T1 EXCEPT !.pages[parent] =
                             SetKeyAt(@, index + 1, KeyAt(T1.pages[neighbor], 0))]

RECURSIVE CoalesceOrRedistribute(_, _)
RECURSIVE Coalesce(_, _, _, _, _)

\* BPlusTree::Coalesce: node (the right page, at slot index of parent) is
\* moved into neighbor_node (the left page): [T, del]
Coalesce(T, neighbor_node, node, parent, index) ==
  LET middle_key == KeyAt(T.pages[parent], index)
      T1 == IF IsLeafPage(T.pages[node])
            THEN LeafMoveAllTo(T, node, neighbor_node)
            ELSE InternalMoveAllTo(T, node, neighbor_node, middle_key)
      T2 == [T1 EXCEPT !.pages[parent] = InternalRemove(@, index)]
  IN CoalesceOrRedistribute(T2, parent)

\* BPlusTree::CoalesceOrRedistribute: [T, del]
CoalesceOrRedistribute(T, node) ==
  LET pg == T.pages[node] IN
  IF IsRootPage(pg) THEN AdjustRoot(T, node)
  ELSE IF GetSize(pg) >= GetMinSize(pg) THEN [T |-> T, del |-> FALSE]
  ELSE
    LET parent_id == pg.parent
        T1 == FetchPage(T, parent_id)
        parent == T1.pages[parent_id]
        index == ValueIndex(parent, node)
    IN
    IF T1.fault # {} THEN [T |-> T1, del |-> FALSE]
    ELSE IF index > 0
    THEN LET left_id == ValueAt(parent, index - 1)
             T2 == FetchPage(T1, left_id)
             left == T2.pages[left_id]
         IN IF T2.fault # {} THEN [T |-> T2, del |-> FALSE]
            ELSE IF GetSize(left) > GetMinSize(left)
            THEN [T |-> UnpinPage(UnpinPage(
                          Redistribute(T2, left_id, node, parent_id, index, TRUE),
                          left_id), parent_id),
                  del |-> FALSE]
            ELSE LET c == Coalesce(T2, left_id, node, parent_id, index)
                     T3 == UnpinPage(UnpinPage(c.T, left_id), parent_id)
                 IN [T |-> IF c.del THEN DeletePage(T3, parent_id) ELSE T3,
                     del |-> TRUE]
    ELSE IF index < GetSize(parent) - 1
    THEN LET right_id == ValueAt(parent, index + 1)
             T2 == FetchPage(T1, right_id)
             right == T2.pages[right_id]
         IN IF T2.fault # {} THEN [T |-> T2, del |-> FALSE]
            ELSE IF GetSize(right) > GetMinSize(right)
            THEN [T |-> UnpinPage(UnpinPage(
                          Redistribute(T2, right_id, node, parent_id, index, FALSE),
                          right_id), parent_id),
                  del |-> FALSE]
            ELSE LET c == Coalesce(T2, node, right_id, parent_id, index + 1)
                     T3 == UnpinPage(c.T, parent_id)
                     T4 == IF c.del THEN DeletePage(T3, parent_id) ELSE T3
                 IN [T |-> DeletePage(UnpinPage(T4, right_id), right_id),
                     del |-> FALSE]
    ELSE [T |-> UnpinPage(T1, parent_id), del |-> FALSE]

\* BPlusTree::Remove after its FindLeafPage call returned `leaf`, up to the
\* release of the latches: [T, del]
RemoveChange(T, leaf, key) ==
  LET T1 == [T EXCEPT !.pages[leaf] = LeafRemoveAndDeleteRecord(@, key)] IN
  IF GetSize(T1.pages[leaf]) = GetSize(T.pages[leaf])
  THEN [T |-> T1, del |-> FALSE]
  ELSE CoalesceOrRedistribute(T1, leaf)

\* the end of Remove: UnlockUnpinPages(transaction), page->WUnlatch(),
\* UnpinPage, and DeletePage of a leaf that was merged away
RemoveRelease(T, leaf, del) ==
  LET T2 == ReleaseLeaf(UnlockUnpinPages(T), leaf) IN
  IF del THEN DeletePage(T2, leaf) ELSE T2

\* BPlusTree::Remove after its FindLeafPage call returned `leaf`
RemoveAtLeaf(T, leaf, key) ==
  TheOne({ RemoveRelease(c.T, leaf, c.del) : c \in {RemoveChange(T, leaf, key)} })

\* BPlusTree::Remove
RemoveOp(T, key) ==
  LET fl == FindLeafPageWrite(T, key) IN
  IF fl.leaf = INVALID_PAGE_ID THEN fl.T ELSE RemoveAtLeaf(fl.T, fl.leaf, key)

\* the read-only descent of FindLeafPage (SEARCH), Begin and Begin(key) from
\* page pid: the leaf reached (pins and read latches are taken and dropped
\* hop by hop, so a call that runs alone leaves none behind on the way)
RECURSIVE DescendRead(_, _, _, _, _)
DescendRead(T, pid, key, leftMost, fuel) ==
  IF fuel = 0 \/ pid \notin PageSlots THEN INVALID_PAGE_ID
  ELSE IF T.pages[pid].kind = "leaf" THEN pid
  ELSE IF T.pages[pid].kind # "internal" \/ GetSize(T.pages[pid]) = 0 THEN INVALID_PAGE_ID
  ELSE DescendRead(T, IF leftMost THEN ValueAt(T.pages[pid], 0)
                      ELSE InternalLookup(T.pages[pid], key),
                   key, leftMost, fuel - 1)

\* the loop of FindLeafPage (SEARCH), Begin() and Begin(key) from `page`, which
\* is fetched and read-latched, with its FetchPage / UnpinPage calls and its
\* latches: [T, leaf]
RECURSIVE SearchDescend(_, _, _, _, _)
SearchDescend(T, page, key, leftMost, fuel) ==
  LET pg == T.pages[page] IN
  IF pg.kind = "leaf" THEN [T |-> T, leaf |-> page]
  ELSE IF fuel = 0 \/ pg.kind # "internal" \/ GetSize(pg) = 0
  THEN [T |-> Fault(T, "search through an emptied page"), leaf |-> INVALID_PAGE_ID]
  ELSE LET child == IF leftMost THEN ValueAt(pg, 0) ELSE InternalLookup(pg, key)
           T1 == FetchPage(T, child)
       IN IF T1.fault # {} THEN [T |-> T1, leaf |-> INVALID_PAGE_ID]
          ELSE SearchDescend(UnpinPage([T1 EXCEPT !.rlatch[child] = @ + 1,
                                                  !.rlatch[page] = @ - 1], page),
                             child, key, leftMost, fuel - 1)

\* FindLeafPage (SEARCH) and the same steps at the start of Begin() and
\* Begin(key): [T, leaf], the leaf pinned and read-latched, or
\* INVALID_PAGE_ID for the nullptr return
FindLeafPageSearch(T, key, leftMost) ==
  IF IsEmpty(T) THEN [T |-> T, leaf |-> INVALID_PAGE_ID]
  ELSE LET T1 == FetchPage(T, T.root) IN
       IF T1.fault # {} THEN [T |-> T1, leaf |-> INVALID_PAGE_ID]
       ELSE SearchDescend([T1 EXCEPT !.rlatch[T.root] = @ + 1], T.root, key, leftMost,
                          MaxTreePageId)

\* BPlusTree::GetValue with its effect on the pool: [T, found, value]
GetValueCall(T, key) ==
  LET r == FindLeafPageSearch(T, key, FALSE) IN
  IF r.leaf = INVALID_PAGE_ID THEN [T |-> r.T, found |-> FALSE, value |-> 0]
  ELSE LET l == LeafLookup(r.T.pages[r.leaf], key) IN
       [T |-> UnpinPage([r.T EXCEPT !.rlatch[r.leaf] = @ - 1], r.leaf),
        found |-> l.found, value |-> l.value]

\* BPlusTree::Begin() (leftMost) and Begin(key) with their effect on the
\* pool: [T, it], the iterator's leaf left pinned
BeginCall(T, key, leftMost) ==
  LET r == FindLeafPageSearch(T, key, leftMost) IN
  IF r.leaf = INVALID_PAGE_ID
  THEN [T |-> r.T, it |-> [page_id_ |-> INVALID_PAGE_ID, index_ |-> 0]]
  ELSE [T |-> [r.T EXCEPT !.rlatch[r.leaf] = @ - 1],
        it |-> [page_id_ |-> r.leaf,
                index_ |-> IF leftMost THEN 0 ELSE KeyIndex(r.T.pages[r.leaf], key)]]

\* IndexIterator::~IndexIterator
IteratorDestroy(T, it) ==
  IF it.page_id_ # INVALID_PAGE_ID THEN UnpinPage(T, it.page_id_) ELSE T

\* BPlusTree::GetValue run alone: [found, value]
GetValueOp(T, key) ==
  IF IsEmpty(T) THEN [found |-> FALSE, value |-> 0]
  ELSE LET leaf == DescendRead(T, T.root, key, FALSE, MaxTreePageId) IN
       IF leaf = INVALID_PAGE_ID THEN [found |-> FALSE, value |-> 0]
       ELSE LeafLookup(T.pages[leaf], key)

\* ------------------------------------------------------------------------
\* IndexIterator (src/project2/index_iterator.cpp): [page_id_, index_]
\* ------------------------------------------------------------------------
StaleSlot == -1        \* what operator* reads from a slot at or past GetSize()

\* BPlusTree::End, and the iterator built from a null leaf
End == [page_id_ |-> INVALID_PAGE_ID, index_ |-> 0]

\* BPlusTree::Begin()
Begin(T) ==
  IF IsEmpty(T) THEN End
  ELSE LET leaf == DescendRead(T, T.root, ZeroKey, TRUE, MaxTreePageId) IN
       IF leaf = INVALID_PAGE_ID THEN End ELSE [page_id_ |-> leaf, index_ |-> 0]

\* BPlusTree::Begin(key)
BeginKey(T, key) ==
  IF IsEmpty(T) THEN End
  ELSE LET leaf == DescendRead(T, T.root, key, FALSE, MaxTreePageId) IN
       IF leaf = INVALID_PAGE_ID THEN End
       ELSE [page_id_ |-> leaf, index_ |-> KeyIndex(T.pages[leaf], key)]

\* IndexIterator::operator*: the key of leaf_->GetItem(index_)
Deref(T, it) ==
  IF it.index_ < GetSize(T.pages[it.page_id_])
  THEN KeyAt(T.pages[it.page_id_], it.index_)
  ELSE StaleSlot

\* IndexIterator::operator++
Increment(T, it) ==
  LET leaf == T.pages[it.page_id_] IN
  IF it.index_ + 1 >= GetSize(leaf)
  THEN IF leaf.next = INVALID_PAGE_ID THEN End
       ELSE [page_id_ |-> leaf.next, index_ |-> 0]
  ELSE [it EXCEPT !.index_ = @ + 1]

\* mutant: the leaf that is left stays pinned
IncrementCall_KeepsPin(T, it) ==
  LET leaf == T.pages[it.page_id_] IN
  IF it.index_ + 1 >= GetSize(leaf)
  THEN IF leaf.next = INVALID_PAGE_ID THEN [T |-> UnpinPage(T, it.page_id_), it |-> End]
       ELSE [T |-> FetchPage(T, leaf.next), it |-> [page_id_ |-> leaf.next, index_ |-> 0]]
  ELSE [T |-> T, it |-> [it EXCEPT !.index_ = @ + 1]]

\* IndexIterator::operator++ with its effect on the pool: [T, it]
IncrementCall(T, it) ==
  LET leaf == T.pages[it.page_id_] IN
  IF it.index_ + 1 >= GetSize(leaf)
  THEN LET T1 == UnpinPage(T, it.page_id_) IN
       IF leaf.next = INVALID_PAGE_ID THEN [T |-> T1, it |-> End]
       ELSE [T |-> FetchPage(T1, leaf.next), it |-> [page_id_ |-> leaf.next, index_ |-> 0]]
  ELSE [T |-> T, it |-> [it EXCEPT !.index_ = @ + 1]]

\* IndexIterator::operator=(IndexIterator &&other), this != &other:
\* [T, this, other]
MoveAssign(T, this, other) ==
  [T |-> IF this.page_id_ # INVALID_PAGE_ID THEN UnpinPage(T, this.page_id_) ELSE T,
   this |-> other,
   other |-> End]

\* for (it = ...; it != End(); ++it) collect (*it).first
RECURSIVE Collect(_, _, _)
Collect(T, it, fuel) ==
  IF it = End \/ fuel = 0 THEN << >>
  ELSE <<Deref(T, it)>> \o Collect(T, Increment(T, it), fuel - 1)

ScanFuel == 2 * MaxTreePageId

\* ========================================================================
\* The index used by one thread: calls run one at a time, with a non-null
\* transaction, on a buffer pool that never runs out of frames
\* ========================================================================
\* <<leaf_max_size, internal_max_size>> given to the constructor
TreeConfigs == { <<2, 3>>, <<2, 4>>, <<3, 3>> }

\* the <<key, value>> pairs given to Insert: every key with the first value,
\* the keys up to MaxRewrittenKey with every value
Inputs == { in \in Keys \X Values : in[2] = 1 \/ in[1] <= MaxRewrittenKey }

NewTree(leaf_max, internal_max, budget) ==
  [pages |-> [p \in PageSlots |-> NoPage],
   root |-> INVALID_PAGE_ID,
   next_pid |-> 1,
   pin |-> [p \in PageSlots |-> 0],
   deleted |-> {},
   header |-> [present |-> FALSE, root |-> INVALID_PAGE_ID],
   root_latch |-> 0,
   root_readers |-> 0,
   wlatch |-> {},
   rlatch |-> [p \in PageSlots |-> 0],
   page_set |-> << >>,
   budget |-> budget,
   thrown |-> FALSE,
   fault |-> {},
   unpin_false |-> FALSE,
   leaf_max_size |-> leaf_max,
   internal_max_size |-> internal_max]

BtRet(op, key, ret, out) == [op |-> op, key |-> key, ret |-> ret, out |-> out]

Running(T) == T.fault = {} /\ ~T.thrown

Insert(key, value) ==
  LET r == InsertOp(tree, key, value) IN
  /\ Running(tree)
  /\ r.T.next_pid <= MaxTreePageId + 1
  /\ tree' = r.T
  /\ kv' = IF r.ret THEN [kv EXCEPT ![key] = value] ELSE kv
  /\ bt_ret' = BtRet("Insert", key, r.ret,
                     IF r.T.thrown THEN <<"OUT_OF_MEMORY">> ELSE << >>)
  /\ UNCHANGED <<bpmVars, thr>>

Remove(key) ==
  /\ Running(tree)
  /\ tree' = RemoveOp(tree, key)
  /\ kv' = [kv EXCEPT ![key] = 0]
  /\ bt_ret' = BtRet("Remove", key, TRUE, << >>)
  /\ UNCHANGED <<bpmVars, thr>>

\* the caller reads every key back: GetValue(k, &result) for each k, with the
\* return value and the result vector of each call (the calls leave the pool
\* and the latches as they were: GetValueCall)
GetValue ==
  /\ Running(tree)
  /\ bt_ret' = BtRet("GetValue", ZeroKey, TRUE,
                     [k \in Keys |->
                        LET r == GetValueOp(tree, k) IN
                        [ret |-> r.found, result |-> IF r.found THEN <<r.value>> ELSE << >>]])
  /\ UNCHANGED <<tree, kv, bpmVars, thr>>

\* the caller takes it = Begin(k) for each k: where each iterator stands
SeekKey ==
  /\ Running(tree)
  /\ bt_ret' = BtRet("Begin(key)", ZeroKey, TRUE, [k \in Keys |-> BeginKey(tree, k)])
  /\ UNCHANGED <<tree, kv, bpmVars, thr>>

\* a full scan from Begin() to End(): the keys operator* yields
Scan ==
  /\ Running(tree)
  /\ bt_ret' = BtRet("Scan", ZeroKey, TRUE, Collect(tree, Begin(tree), ScanFuel))
  /\ UNCHANGED <<tree, kv, bpmVars, thr>>

Init ==
  \* the buffer pool behind the index is part of `tree`
  /\ pages_ = << >> /\ free_list_ = << >> /\ page_table_ = << >> /\ replacer_ = << >>
  /\ next_page_id_ = 0 /\ disk = << >> /\ bpm_ret = << >> /\ bpm_log = << >>
  /\ thr = << >>
  /\ \E c \in TreeConfigs : tree = NewTree(c[1], c[2], -1)
  /\ kv = [k \in Keys |-> 0]
  /\ bt_ret = BtRet("Init", ZeroKey, TRUE, << >>)

Next ==
  \/ \E in \in Inputs : Insert(in[1], in[2])
  \/ \E k \in Keys : Remove(k)
  \/ GetValue
  \/ SeekKey
  \/ Scan

Spec == Init /\ [][Next]_vars

\* ========================================================================
\* Claims about the index used by one thread (checked under Spec)
\* ========================================================================
Present == { k \in Keys : kv[k] # 0 }

RECURSIVE Ascending(_)
Ascending(S) ==
  IF S = {} THEN << >>
  ELSE LET m == CHOOSE x \in S : \A y \in S : x <= y IN <<m>> \o Ascending(S \ {m})

\* C1: after any sequence of Insert and Remove calls, GetValue(k) returns true
\* with exactly the value of the last successful Insert(k, v) when k was
\* inserted and not removed afterwards, and false with no result otherwise
C1_GetValue ==
  bt_ret.op = "GetValue" =>
    \A k \in Keys :
      IF k \in Present
      THEN bt_ret.out[k].ret /\ bt_ret.out[k].result = <<kv[k]>>
      ELSE ~bt_ret.out[k].ret /\ bt_ret.out[k].result = << >>

\* C2: a scan from Begin() with operator++ until End() yields exactly the
\* present keys, each once, in strictly increasing order, and never reads a
\* slot at or past the size of its leaf
C2_Scan ==
  bt_ret.op = "Scan" => bt_ret.out = Ascending(Present)

\* C3: Begin(k) stands on the smallest present key >= k, and equals End()
\* when there is none; its slot index is never the size of its leaf
C3_BeginKey ==
  bt_ret.op = "Begin(key)" =>
    \A k \in Keys :
      LET S == { j \in Present : j >= k }
          it == bt_ret.out[k]
      IN IF S = {} THEN it = End
         ELSE /\ it # End
              /\ it.index_ < GetSize(tree.pages[it.page_id_])
              /\ Deref(tree, it) = Ascending(S)[1]

\* C4: Insert(k, v') of a key the tree contains returns false and leaves the
\* page contents, the root page id and the stored value of k unchanged;
\* Remove(k) of a key the tree does not contain returns without error and
\* leaves them unchanged
C4_NoOpCalls ==
  [][/\ (bt_ret'.op = "Insert" /\ bt_ret'.key \in Present) =>
          /\ ~bt_ret'.ret
          /\ tree'.pages = tree.pages /\ tree'.root = tree.root
          /\ GetValueOp(tree', bt_ret'.key) = [found |-> TRUE, value |-> kv[bt_ret'.key]]
     /\ (bt_ret'.op = "Remove" /\ bt_ret'.key \notin Present) =>
          /\ Running(tree')
          /\ tree'.pages = tree.pages /\ tree'.root = tree.root]_vars

\* the pages reachable from page p through child pointers, p included
RECURSIVE PagesBelow(_, _, _)
PagesBelow(T, p, fuel) ==
  IF p \notin PageSlots \/ fuel = 0 THEN {}
  ELSE IF T.pages[p].kind = "internal"
       THEN {p} \cup UNION { PagesBelow(T, T.pages[p].vals[i], fuel - 1) :
                             i \in 1 .. Len(T.pages[p].vals) }
       ELSE {p}

\* the pages reachable from the root
TreePages(T) ==
  IF T.root = INVALID_PAGE_ID THEN {} ELSE PagesBelow(T, T.root, MaxTreePageId)

\* the keys stored in the leaves below page p
StoredKeys(T, p) ==
  UNION { SeqToSet(T.pages[q].keys) :
          q \in { r \in PagesBelow(T, p, MaxTreePageId) : T.pages[r].kind = "leaf" } }

\* C24: after every completed Insert or Remove every non-root page reachable
\* from the root has min_size <= size <= max_size, min_size being
\* ceil(max_size/2) for internal pages and ceil((max_size-1)/2) for leaves,
\* for every leaf_max_size and internal_max_size, 3 included.
C24_SizeBounds ==
  \A p \in TreePages(tree) \ {tree.root} :
    /\ GetMinSize(tree.pages[p]) <= GetSize(tree.pages[p])
    /\ GetSize(tree.pages[p]) <= tree.pages[p].max_size

\* C25: after every completed Insert or Remove, for every internal page
\* reachable from the root and every slot i >= 1, the keys stored below child
\* i are >= key[i] and the keys stored below child i-1 are < key[i]; the keys
\* in slots 1..size-1 are strictly increasing.
C25_SeparatorKeys ==
  \A p \in TreePages(tree) :
    tree.pages[p].kind = "internal" =>
      \A i \in 1 .. (GetSize(tree.pages[p]) - 1) :
        /\ \A k \in StoredKeys(tree, ValueAt(tree.pages[p], i)) : k >= KeyAt(tree.pages[p], i)
        /\ \A k \in StoredKeys(tree, ValueAt(tree.pages[p], i - 1)) : k < KeyAt(tree.pages[p], i)
        /\ i >= 2 => KeyAt(tree.pages[p], i - 1) < KeyAt(tree.pages[p], i)

\* C26: after every completed Insert or Remove every child referenced by a
\* slot of an internal page P reachable from the root has parent_page_id = P,
\* and the root has parent_page_id = INVALID_PAGE_ID; children moved by an
\* internal split, coalesce or redistribute and the child promoted by
\* AdjustRoot included.
C26_ParentPointers ==
  /\ tree.root # INVALID_PAGE_ID => tree.pages[tree.root].parent = INVALID_PAGE_ID
  /\ \A p \in TreePages(tree) :
       tree.pages[p].kind = "internal" =>
         \A i \in 0 .. (GetSize(tree.pages[p]) - 1) :
           /\ ValueAt(tree.pages[p], i) \in PageSlots
           /\ tree.pages[ValueAt(tree.pages[p], i)].parent = p

\* Remove has merged two internal pages that an internal split had made (one
\* of them is left empty and out of the tree) and AdjustRoot has promoted the
\* other one, the single child of the old root
C26_Witness ==
  /\ bt_ret.op = "Remove"
  /\ tree.root # INVALID_PAGE_ID
  /\ tree.pages[tree.root].kind = "internal"
  /\ GetSize(tree.pages[tree.root]) >= 3
  /\ \E p \in PageSlots \ TreePages(tree) :
       tree.pages[p].kind = "internal" /\ GetSize(tree.pages[p]) = 0
  /\ \E p \in PageSlots \ TreePages(tree) :
       tree.pages[p].kind = "internal" /\ tree.pages[p].vals = <<tree.root>>

\* GetValue gives back every pin it takes and returns what the action
\* GetValue reports
GetValuePins(T) ==
  \A k \in Keys :
    LET r == GetValueCall(T, k) IN
    /\ r.T = T
    /\ [found |-> r.found, value |-> r.value] = GetValueOp(T, k)

\* an iterator from Begin() or Begin(key) pins its leaf and nothing else, and
\* its destructor gives the pin back
IteratorPins(T) ==
  \A k \in Keys, leftMost \in BOOLEAN :
    LET b == BeginCall(T, k, leftMost) IN
    /\ b.T.pin = [p \in PageSlots |-> IF p = b.it.page_id_ THEN T.pin[p] + 1 ELSE T.pin[p]]
    /\ IteratorDestroy(b.T, b.it).pin = T.pin
    /\ ~IteratorDestroy(b.T, b.it).unpin_false

\* C30: after any completed GetValue, Insert or Remove (non-null transaction,
\* no allocation failure) every FetchPage / NewPage of the call has been
\* matched by one successful UnpinPage, so every pin count is what it was
\* before the call; the only pin that outlives a call is the leaf of a live
\* iterator; no UnpinPage of the tree returns false.
C30_PinDiscipline ==
  /\ [][ bt_ret'.op \in {"Insert", "Remove"} =>
           /\ tree'.pin = tree.pin
           /\ ~tree'.unpin_false ]_vars
  /\ [](Running(tree) => (GetValuePins(tree) /\ IteratorPins(tree)))

\* the pins of T0 and one more on the leaf of iterator `it`
PinsWith(T0, it) ==
  [p \in PageSlots |-> IF p = it.page_id_ THEN T0.pin[p] + 1 ELSE T0.pin[p]]

\* the iterator of c = [T, it], taken on T0, pins its leaf once and nothing
\* else, holds no latch, and its destructor gives the pin back
OnePin(T0, c) ==
  /\ c.T.pin = PinsWith(T0, c.it)
  /\ c.T.rlatch = T0.rlatch /\ c.T.wlatch = T0.wlatch
  /\ c.T.root_latch = T0.root_latch /\ c.T.root_readers = T0.root_readers
  /\ ~c.T.unpin_false /\ c.T.fault = {}
  /\ IteratorDestroy(c.T, c.it).pin = T0.pin
  /\ ~IteratorDestroy(c.T, c.it).unpin_false

\* OnePin of the iterator and of all it becomes under ++, up to End()
RECURSIVE WalkPins(_, _, _)
WalkPins(T0, c, fuel) ==
  /\ OnePin(T0, c)
  /\ (c.it # End /\ fuel > 0) => WalkPins(T0, IncrementCall(c.T, c.it), fuel - 1)

\* a = Begin(), b = Begin(key), then a = std::move(b) (and the other way
\* round): a's pin is given back, b's is now a's, b holds none
MovePins(T0, key) ==
  \A first \in BOOLEAN :
    LET a == BeginCall(T0, key, first)
        b == BeginCall(a.T, key, ~first)
        mv == MoveAssign(b.T, a.it, b.it)
    IN /\ mv.T.pin = PinsWith(T0, b.it)
       /\ mv.this = b.it /\ mv.other = End
       /\ ~mv.T.unpin_false
       /\ IteratorDestroy(IteratorDestroy(mv.T, mv.other), mv.this).pin = T0.pin

\* C38: an iterator that is not at the end keeps exactly one pin, on its
\* current leaf, and holds no latch; operator++ past the last slot of a leaf
\* unpins that leaf and pins the leaf named by next_page_id, or becomes the
\* sentinel (INVALID_PAGE_ID, index 0), which equals End() and holds no pin;
\* destroying or move-assigning over an iterator releases its pin exactly
\* once.
C38_IteratorPins ==
  Running(tree) =>
    /\ WalkPins(tree, BeginCall(tree, ZeroKey, TRUE), ScanFuel)
    /\ \A k \in Keys : /\ WalkPins(tree, BeginCall(tree, k, FALSE), ScanFuel)
                       /\ MovePins(tree, k)

\* a scan has gone through every key of a tree of at least three leaves
C38_Witness ==
  /\ bt_ret.op = "Scan" /\ Len(bt_ret.out) = MaxKey
  /\ Cardinality({ p \in TreePages(tree) : tree.pages[p].kind = "leaf" }) >= 3
  /\ \A p \in PageSlots : tree.pin[p] = 0

\* Remove has merged pages and freed one in a tree that splits have grown to
\* seven pages, and no page is left pinned
C30_Witness ==
  /\ bt_ret.op = "Remove"
  /\ tree.deleted # {}
  /\ tree.next_pid >= 8
  /\ \A p \in PageSlots : tree.pin[p] = 0
  /\ ~tree.unpin_false

\* the pages NewPage has handed out that are neither in the tree nor deleted
Leaked(T) == { p \in 1 .. T.next_pid - 1 : p \notin TreePages(T) /\ p \notin T.deleted }

\* C31: every page that a Remove merges away (leaf or internal coalesce) or
\* replaces as root (AdjustRoot) is freed: its DeletePage call is made at
\* pin count zero and succeeds, so that once the call is complete every page
\* ever allocated is in the tree or deleted.
C31_MergedPagesFreed ==
  Running(tree) => Leaked(tree) = {}

\* C32: after every completed Insert or Remove the header-page record stored
\* under the index's name equals root_page_id_ (while the tree has never had
\* a root there is no record): every change of the root is persisted, the
\* first insert, a root split, a root collapse, the tree becoming empty and a
\* new tree started after that.
C32_HeaderRecord ==
  Running(tree) /\ bt_ret.op \in {"Insert", "Remove"} =>
    IF tree.header.present THEN tree.header.root = tree.root
    ELSE tree.root = INVALID_PAGE_ID

\* the internal pages that hold internal pages
UpperPages(T) ==
  { p \in 1 .. T.next_pid - 1 :
      /\ T.pages[p].kind = "internal"
      /\ GetSize(T.pages[p]) >= 2
      /\ T.pages[ValueAt(T.pages[p], 0)].kind = "internal" }

Last(s) == s[Len(s)]

\* in this step the page at slot i of p has taken the last child of the page
\* at slot i - 1 as its slot 0
BorrowsFromLeft(p, i) ==
  LET l == ValueAt(tree.pages[p], i - 1)
      n == ValueAt(tree.pages[p], i)
  IN
  /\ tree'.pages[p].vals = tree.pages[p].vals
  /\ tree.pages[l].vals # << >> /\ tree'.pages[n].vals # << >>
  /\ tree'.pages[l].vals = PopBack(tree.pages[l].vals)
  /\ tree'.pages[n].vals[1] = Last(tree.pages[l].vals)

\* in this step the page at slot i of p has taken the first child of the page
\* at slot i + 1 as its last slot
BorrowsFromRight(p, i) ==
  LET r == ValueAt(tree.pages[p], i + 1)
      n == ValueAt(tree.pages[p], i)
  IN
  /\ tree'.pages[p].vals = tree.pages[p].vals
  /\ tree.pages[r].vals # << >> /\ tree'.pages[n].vals # << >>
  /\ tree'.pages[r].vals = Tail(tree.pages[r].vals)
  /\ Last(tree'.pages[n].vals) = tree.pages[r].vals[1]

\* the keys stored under a page are found by GetValue
Found(T, child) == \A k \in StoredKeys(T, child) : GetValueOp(T, k).found

\* C33: when a Remove leaves an internal non-root page under min_size and it
\* borrows one entry from its left sibling, the borrowed child is slot 0 of
\* the borrowing page, the key at its slot 1 is the old parent separator,
\* the parent separator between the two pages is the key that bounded the
\* borrowed child in the left sibling, and every key stored under the
\* borrowed child is found by a descent from the root; symmetrically for a
\* borrow from the right sibling.
C33_InternalBorrow ==
  [][ bt_ret'.op = "Remove" /\ Running(tree') =>
        \A p \in UpperPages(tree) :
          /\ \A i \in 1 .. GetSize(tree.pages[p]) - 1 :
                BorrowsFromLeft(p, i) =>
                  LET l == ValueAt(tree.pages[p], i - 1)
                      n == ValueAt(tree.pages[p], i)
                  IN /\ KeyAt(tree'.pages[n], 1) = KeyAt(tree.pages[p], i)
                     /\ KeyAt(tree'.pages[p], i) = Last(tree.pages[l].keys)
                     /\ Found(tree', ValueAt(tree'.pages[n], 0))
          /\ \A i \in 0 .. GetSize(tree.pages[p]) - 2 :
                BorrowsFromRight(p, i) =>
                  LET r == ValueAt(tree.pages[p], i + 1)
                      n == ValueAt(tree.pages[p], i)
                  IN /\ Last(tree'.pages[n].keys) = KeyAt(tree.pages[p], i + 1)
                     /\ KeyAt(tree'.pages[p], i + 1) = KeyAt(tree.pages[r], 1)
                     /\ Found(tree', Last(tree'.pages[n].vals))
    ]_vars

\* C27: after every completed Insert or Remove the tree is empty (no page
\* reachable from the root stores a key) exactly when root_page_id_ is
\* INVALID_PAGE_ID, a root that is a leaf has size >= 1, and a root that is
\* an internal page has size >= 2.
C27_Root ==
  /\ (\A p \in TreePages(tree) : StoredKeys(tree, p) = {}) = (tree.root = INVALID_PAGE_ID)
  /\ tree.root # INVALID_PAGE_ID =>
       /\ tree.pages[tree.root].kind \in {"leaf", "internal"}
       /\ tree.pages[tree.root].kind = "leaf" => GetSize(tree.pages[tree.root]) >= 1
       /\ tree.pages[tree.root].kind = "internal" => GetSize(tree.pages[tree.root]) >= 2

\* ========================================================================
\* The index on a buffer pool that runs out of frames: the first `budget`
\* NewPage calls get a frame, the next one returns nullptr
\* ========================================================================
InitOOM ==
  \* the buffer pool behind the index is part of `tree`
  /\ pages_ = << >> /\ free_list_ = << >> /\ page_table_ = << >> /\ replacer_ = << >>
  /\ next_page_id_ = 0 /\ disk = << >> /\ bpm_ret = << >> /\ bpm_log = << >>
  /\ thr = << >>
  /\ \E c \in TreeConfigs, b \in 0 .. MaxBudget : tree = NewTree(c[1], c[2], b)
  /\ kv = [k \in Keys |-> 0]
  /\ bt_ret = BtRet("Init", ZeroKey, TRUE, << >>)

SpecOOM == InitOOM /\ [][Next]_vars

HoldsNothing(T) ==
  /\ T.root_latch = 0
  /\ T.wlatch = {}
  /\ T.page_set = << >>
  /\ \A p \in PageSlots : T.pin[p] = 0

\* C6: when NewPage fails during an Insert, the call ends with OUT_OF_MEMORY
\* and by then has released the root latch, every page latch and every pin
C6_AllocationFailure ==
  tree.thrown => bt_ret.out = <<"OUT_OF_MEMORY">> /\ HoldsNothing(tree)

\* ========================================================================
\* The index called with and without a transaction (transaction == nullptr),
\* one call at a time.  A call starts with root_latch_.WLock() or RLock(),
\* which returns once the root latch is free.
\* ========================================================================
\* what FindLeafPage (INSERT / DELETE) leaves behind when transaction ==
\* nullptr: the latches and pins of the descent, and no page set
NoPageSet(T) == [T EXCEPT !.page_set = << >>]

\* BPlusTree::InsertIntoLeaf with transaction == nullptr: [T, ret]
InsertIntoLeafNull(T, key, value) ==
  LET fl == FindLeafPageWrite(T, key) IN
  IF fl.leaf = INVALID_PAGE_ID THEN [T |-> fl.T, ret |-> FALSE]
  ELSE TheOne({ IF c.T.thrown THEN c ELSE [T |-> ReleaseLeaf(c.T, fl.leaf), ret |-> c.ret] :
                  c \in {InsertChange(NoPageSet(fl.T), fl.leaf, key, value)} })

\* BPlusTree::Insert with transaction == nullptr: [T, ret]
InsertOpNull(T, key, value) ==
  LET T1 == [T EXCEPT !.root_latch = 1] IN
  IF IsEmpty(T1)
  THEN LET T2 == StartNewTree(T1, key, value) IN
       IF T2.thrown THEN [T |-> T2, ret |-> FALSE]
       ELSE [T |-> [T2 EXCEPT !.root_latch = 0], ret |-> TRUE]
  ELSE InsertIntoLeafNull([T1 EXCEPT !.root_latch = 0], key, value)

\* BPlusTree::Remove with transaction == nullptr
RemoveOpNull(T, key) ==
  LET fl == FindLeafPageWrite(T, key) IN
  IF fl.leaf = INVALID_PAGE_ID THEN fl.T
  ELSE TheOne({ IF c.del THEN DeletePage(ReleaseLeaf(c.T, fl.leaf), fl.leaf)
                ELSE ReleaseLeaf(c.T, fl.leaf) :
                  c \in {RemoveChange(NoPageSet(fl.T), fl.leaf, key)} })

\* what bt_ret.out says of a call made with transaction == nullptr
NullTxn == <<"nullptr">>

\* Insert(key, value, transaction)
CallInsert(txn, key, value) ==
  LET r == IF txn THEN InsertOp(tree, key, value) ELSE InsertOpNull(tree, key, value) IN
  /\ Running(tree)
  /\ tree.root_latch = 0
  /\ r.T.next_pid <= MaxTreePageId + 1
  /\ tree' = r.T
  /\ kv' = IF r.ret THEN [kv EXCEPT ![key] = value] ELSE kv
  /\ bt_ret' = BtRet("Insert", key, r.ret, IF txn THEN << >> ELSE NullTxn)
  /\ UNCHANGED <<bpmVars, thr>>

\* Remove(key, transaction)
CallRemove(txn, key) ==
  /\ Running(tree)
  /\ tree.root_latch = 0
  /\ tree' = IF txn THEN RemoveOp(tree, key) ELSE RemoveOpNull(tree, key)
  /\ kv' = [kv EXCEPT ![key] = 0]
  /\ bt_ret' = BtRet("Remove", key, TRUE, IF txn THEN << >> ELSE NullTxn)
  /\ UNCHANGED <<bpmVars, thr>>

\* GetValue(key, &result)
CallGetValue(key) ==
  LET r == GetValueOp(tree, key) IN
  /\ Running(tree)
  /\ tree.root_latch = 0
  /\ bt_ret' = BtRet("GetValue", key, r.found, IF r.found THEN <<r.value>> ELSE << >>)
  /\ UNCHANGED <<tree, kv, bpmVars, thr>>

\* <<leaf_max_size, internal_max_size>>: two inserts make a root above leaves
NullConfig == <<2, 3>>

InitNull ==
  \* the buffer pool behind the index is part of `tree`
  /\ pages_ = << >> /\ free_list_ = << >> /\ page_table_ = << >> /\ replacer_ = << >>
  /\ next_page_id_ = 0 /\ disk = << >> /\ bpm_ret = << >> /\ bpm_log = << >>
  /\ thr = << >>
  /\ tree = NewTree(NullConfig[1], NullConfig[2], -1)
  /\ kv = [k \in Keys |-> 0]
  /\ bt_ret = BtRet("Init", ZeroKey, TRUE, << >>)

NextNull ==
  \/ \E txn \in BOOLEAN, k \in Keys : CallInsert(txn, k, 1)
  \/ \E txn \in BOOLEAN, k \in Keys : CallRemove(txn, k)
  \/ \E k \in Keys : CallGetValue(k)

SpecNull == InitNull /\ [][NextNull]_vars

\* C36: an Insert or Remove called with a null transaction pointer on a
\* non-empty tree has released the exclusive root latch and every write latch
\* and pin of the pages of its descent when it returns, so that the calls
\* that follow are not blocked forever.
C36_NullTransaction ==
  [][ (~IsEmpty(tree) /\ bt_ret'.op \in {"Insert", "Remove"} /\ bt_ret'.out = NullTxn) =>
        HoldsNothing(tree') ]_vars

\* ========================================================================
\* The index shared by threads: a thread running searches (GetValue, Begin(),
\* Begin(key)) and one or two threads running Insert / Remove (with a
\* transaction), interleaved latch by latch.  A latch acquisition is a step
\* that waits until the latch is free.  A search's release of the root latch
\* or of a parent's latch is a step of its own, so that what it holds between
\* an acquisition and the release that follows is a state.  What Insert /
\* Remove do to the pages once the leaf is latched is one step, and the
\* release of their latches is the next.  tree.page_set is the page set of
\* the transaction of the call that holds the root latch.
\*   thr.rd  the search: pc, op, key, page (the page it latched last), parent
\*           (the page above it while that is still latched), stable (ghost:
\*           key was present when GetValue was invoked and no call on the same
\*           key has overlapped it), ret, result, it (the iterator of a Begin)
\*   thr.wr, thr.w2  an Insert / Remove call: pc, op, key, value, page (the
\*           page it latches next, then the leaf FindLeafPage returned), ret
\*           and del (what the call returns and whether it deletes the leaf),
\*           absent (ghost: key has been absent since the call was invoked)
\* ========================================================================
ConcKeys == 1 .. MaxConcKey
ConcConfig == <<3, 3>>
\* the configuration in which three inserts grow a tree of three levels
CrabConfig == <<2, 3>>

SearchOps == {"GetValue", "Begin", "BeginKey"}

IdleReader == [pc |-> "idle", op |-> "none", key |-> ZeroKey,
               page |-> INVALID_PAGE_ID, parent |-> INVALID_PAGE_ID,
               stable |-> FALSE, ret |-> FALSE, result |-> << >>, it |-> End]
IdleWriter == [pc |-> "idle", op |-> "none", key |-> ZeroKey, value |-> 0,
               page |-> INVALID_PAGE_ID, ret |-> FALSE, del |-> FALSE,
               absent |-> FALSE]

\* the threads that run Insert / Remove (thr.calls, where it exists, is the
\* number of calls the threads still make)
Writers(t) == DOMAIN t \ {"rd", "calls"}

\* ghost: a call of the writer on `key` overlaps the reader's call
Overlap(rd, key) ==
  IF rd.pc # "idle" /\ rd.key = key THEN [rd EXCEPT !.stable = FALSE] ELSE rd

\* ghost: writer w has made `key` present; the calls of the other writers on
\* `key` have no longer seen it absent from their invocation on
Seen(t, w, key) ==
  [x \in DOMAIN t |->
     IF x \in Writers(t) \ {w} /\ t[x].key = key THEN [t[x] EXCEPT !.absent = FALSE]
     ELSE t[x]]

\* the pages an Insert allocates at most: one per level, and a new root
RECURSIVE Height(_, _, _)
Height(T, pid, fuel) ==
  IF fuel = 0 \/ pid \notin PageSlots THEN 0
  ELSE IF T.pages[pid].kind # "internal" \/ GetSize(T.pages[pid]) = 0 THEN 1
  ELSE 1 + Height(T, ValueAt(T.pages[pid], 0), fuel - 1)

SplitPages(T) == Height(T, T.root, MaxTreePageId) + 1

\* the threads once the search thread has invoked op
ReadCalled(op, key) ==
  [thr EXCEPT !.rd = [IdleReader EXCEPT
                        !.pc = "call", !.op = op, !.key = key,
                        !.stable = /\ op = "GetValue"
                                   /\ key \in Present
                                   /\ \A w \in Writers(thr) :
                                        thr[w].pc = "idle" \/ thr[w].key # key]]

\* GetValue(key), Begin() or Begin(key) is invoked
ReadCall(op, key) ==
  /\ Running(tree)
  /\ thr.rd.pc = "idle"
  /\ (op = "Begin") = (key = ZeroKey)
  /\ thr' = ReadCalled(op, key)
  /\ UNCHANGED <<tree, kv, bt_ret, bpmVars>>

\* FindLeafPage (SEARCH), Begin: root_latch_.RLock()
ReadLockRoot ==
  /\ Running(tree)
  /\ thr.rd.pc = "call"
  /\ tree.root_latch = 0
  /\ tree' = [tree EXCEPT !.root_readers = @ + 1]
  /\ thr' = [thr EXCEPT !.rd.pc = "rlock"]
  /\ UNCHANGED <<kv, bt_ret, bpmVars>>

\* FindLeafPage (SEARCH), Begin: IsEmpty() and root_latch_.RUnlock(), or
\* FetchPage(root_page_id_), page->RLatch()
ReadRoot ==
  /\ Running(tree)
  /\ thr.rd.pc = "rlock"
  /\ IF IsEmpty(tree)
     THEN /\ tree' = [tree EXCEPT !.root_readers = @ - 1]
          /\ thr' = [thr EXCEPT !.rd.pc = "done"]
     ELSE /\ tree.root \notin tree.wlatch
          /\ tree' = [FetchPage(tree, tree.root) EXCEPT !.rlatch[tree.root] = @ + 1]
          /\ thr' = [thr EXCEPT !.rd.pc = "root", !.rd.page = tree.root]
  /\ UNCHANGED <<kv, bt_ret, bpmVars>>

\* FindLeafPage (SEARCH), Begin: root_latch_.RUnlock() once the root page is
\* latched
ReadRootUnlock ==
  /\ Running(tree)
  /\ thr.rd.pc = "root"
  /\ tree' = [tree EXCEPT !.root_readers = @ - 1]
  /\ thr' = [thr EXCEPT !.rd.pc = "page"]
  /\ UNCHANGED <<kv, bt_ret, bpmVars>>

\* FindLeafPage (SEARCH), Begin, one turn of the loop: Lookup (ValueAt(0) for
\* Begin()), FetchPage(child), child->RLatch()
ReadDescend ==
  LET page == thr.rd.page
      pg == tree.pages[page]
      child == IF thr.rd.op = "Begin" THEN ValueAt(pg, 0)
               ELSE InternalLookup(pg, thr.rd.key)
  IN
  /\ Running(tree)
  /\ thr.rd.pc = "page"
  /\ ~IsLeafPage(pg)
  /\ IF pg.kind # "internal" \/ GetSize(pg) = 0
     THEN /\ tree' = Fault(tree, "search through an emptied page")
          /\ UNCHANGED thr
     ELSE /\ child \notin tree.wlatch
          /\ tree' = [FetchPage(tree, child) EXCEPT !.rlatch[child] = @ + 1]
          /\ thr' = [thr EXCEPT !.rd.pc = "crab", !.rd.page = child, !.rd.parent = page]
  /\ UNCHANGED <<kv, bt_ret, bpmVars>>

\* mutant: the parent stays latched and pinned
ReadRelease_Keeps ==
  /\ Running(tree)
  /\ thr.rd.pc = "crab"
  /\ thr' = [thr EXCEPT !.rd.pc = "page", !.rd.parent = INVALID_PAGE_ID]
  /\ UNCHANGED <<tree, kv, bt_ret, bpmVars>>

\* FindLeafPage (SEARCH), Begin, the end of a turn of the loop:
\* page->RUnlatch(), UnpinPage(page) of the parent
ReadRelease ==
  /\ Running(tree)
  /\ thr.rd.pc = "crab"
  /\ tree' = UnpinPage([tree EXCEPT !.rlatch[thr.rd.parent] = @ - 1], thr.rd.parent)
  /\ thr' = [thr EXCEPT !.rd.pc = "page", !.rd.parent = INVALID_PAGE_ID]
  /\ UNCHANGED <<kv, bt_ret, bpmVars>>

\* at the leaf.  GetValue: Lookup, page->RUnlatch(), UnpinPage.  Begin() and
\* Begin(key): the index, page->RUnlatch(); the page stays pinned for the
\* iterator
ReadLeaf ==
  LET page == thr.rd.page
      r == LeafLookup(tree.pages[page], thr.rd.key)
  IN
  /\ Running(tree)
  /\ thr.rd.pc = "page"
  /\ IsLeafPage(tree.pages[page])
  /\ IF thr.rd.op = "GetValue"
     THEN /\ tree' = UnpinPage([tree EXCEPT !.rlatch[page] = @ - 1], page)
          /\ thr' = [thr EXCEPT !.rd.pc = "done", !.rd.page = INVALID_PAGE_ID,
                                !.rd.ret = r.found,
                                !.rd.result = IF r.found THEN <<r.value>> ELSE << >>]
     ELSE /\ tree' = [tree EXCEPT !.rlatch[page] = @ - 1]
          /\ thr' = [thr EXCEPT !.rd.pc = "done", !.rd.page = INVALID_PAGE_ID,
                                !.rd.it = [page_id_ |-> page,
                                           index_ |-> IF thr.rd.op = "Begin" THEN 0
                                                      ELSE KeyIndex(tree.pages[page],
                                                                    thr.rd.key)]]
  /\ UNCHANGED <<kv, bt_ret, bpmVars>>

\* the call returns to its caller (what it returns is in thr.rd until then),
\* which uses the iterator of a Begin no further: IndexIterator::~IndexIterator
ReadReturn ==
  /\ thr.rd.pc = "done"
  /\ tree' = IteratorDestroy(tree, thr.rd.it)
  /\ thr' = [thr EXCEPT !.rd = IdleReader]
  /\ UNCHANGED <<kv, bt_ret, bpmVars>>

\* the threads once thread w has invoked op
WriteCalled(w, op, key, value) ==
  [thr EXCEPT ![w] = [pc |-> IF op = "Insert" THEN "call" ELSE "find",
                      op |-> op, key |-> key, value |-> value,
                      page |-> INVALID_PAGE_ID, ret |-> FALSE, del |-> FALSE,
                      absent |-> kv[key] = 0],
              !.rd = Overlap(@, key)]

\* Insert(key, value) or Remove(key) is invoked (an Insert only while its
\* splits fit the pages this specification allocates)
WriteCall(w, op, key, value) ==
  /\ Running(tree)
  /\ thr[w].pc = "idle"
  /\ op = "Insert" => SplitPages(tree) <= tree.budget
  /\ thr' = WriteCalled(w, op, key, value)
  /\ UNCHANGED <<tree, kv, bt_ret, bpmVars>>

\* Insert: root_latch_.WLock(); IsEmpty() ? StartNewTree : (nothing);
\* root_latch_.WUnlock()
WriteStart(w) ==
  /\ Running(tree)
  /\ thr[w].pc = "call"
  /\ tree.root_latch = 0 /\ tree.root_readers = 0
  /\ IF IsEmpty(tree)
     THEN /\ tree' = [StartNewTree([tree EXCEPT !.root_latch = 1],
                                       thr[w].key, thr[w].value) EXCEPT !.root_latch = 0]
          /\ kv' = [kv EXCEPT ![thr[w].key] = thr[w].value]
          /\ bt_ret' = BtRet("Insert", thr[w].key, TRUE, << >>)
          /\ thr' = [Seen(thr, w, thr[w].key) EXCEPT ![w] = IdleWriter]
     ELSE /\ thr' = [thr EXCEPT ![w].pc = "find"]
          /\ UNCHANGED <<tree, kv, bt_ret>>
  /\ UNCHANGED bpmVars

\* FindLeafPage (INSERT / DELETE): root_latch_.WLock(), AddIntoPageSet(nullptr),
\* IsEmpty()
WriteLockRoot(w) ==
  /\ Running(tree)
  /\ thr[w].pc = "find"
  /\ tree.root_latch = 0 /\ tree.root_readers = 0
  /\ IF IsEmpty(tree)
     THEN /\ bt_ret' = BtRet(thr[w].op, thr[w].key, thr[w].op = "Remove", << >>)
          /\ kv' = IF thr[w].op = "Remove" THEN [kv EXCEPT ![thr[w].key] = 0] ELSE kv
          /\ thr' = [thr EXCEPT ![w] = IdleWriter]
          /\ UNCHANGED tree
     ELSE /\ tree' = [tree EXCEPT !.root_latch = 1, !.page_set = Append(@, NullMark)]
          /\ thr' = [thr EXCEPT ![w].pc = "latch", ![w].page = tree.root]
          /\ UNCHANGED <<kv, bt_ret>>
  /\ UNCHANGED bpmVars

\* mutant: the root latch is released once a page is latched, as in a SEARCH
WriteLatch_ReleasesRoot(w) ==
  LET page == thr[w].page
      pg == tree.pages[page]
      T1 == [FetchPage(tree, page) EXCEPT !.wlatch = @ \cup {page},
                                          !.page_set = Append(@, page),
                                          !.root_latch = 0]
  IN
  /\ Running(tree)
  /\ thr[w].pc = "latch"
  /\ tree.rlatch[page] = 0
  /\ page \notin tree.wlatch
  /\ IF pg.kind = "internal"
     THEN /\ tree' = T1
          /\ thr' = [thr EXCEPT ![w].page = InternalLookup(pg, thr[w].key)]
     ELSE /\ tree' = [T1 EXCEPT !.page_set = PopBack(@)]
          /\ thr' = [thr EXCEPT ![w].pc = "modify"]
  /\ UNCHANGED <<kv, bt_ret, bpmVars>>

\* FindLeafPage (INSERT / DELETE): FetchPage, page->WLatch(), AddIntoPageSet,
\* then the child to go to, or the leaf (popped from the page set)
WriteLatch(w) ==
  LET page == thr[w].page
      pg == tree.pages[page]
      T1 == [FetchPage(tree, page) EXCEPT !.wlatch = @ \cup {page},
                                          !.page_set = Append(@, page)]
  IN
  /\ Running(tree)
  /\ thr[w].pc = "latch"
  /\ tree.rlatch[page] = 0
  /\ page \notin tree.wlatch
  /\ IF pg.kind = "internal"
     THEN /\ tree' = T1
          /\ thr' = [thr EXCEPT ![w].page = InternalLookup(pg, thr[w].key)]
     ELSE /\ tree' = [T1 EXCEPT !.page_set = PopBack(@)]
          /\ thr' = [thr EXCEPT ![w].pc = "modify"]
  /\ UNCHANGED <<kv, bt_ret, bpmVars>>

\* InsertIntoLeaf / Remove once FindLeafPage has returned the leaf: the
\* change to the pages, with its splits, merges and root changes
WriteModify(w) ==
  LET leaf == thr[w].page
      key == thr[w].key
  IN
  /\ Running(tree)
  /\ thr[w].pc = "modify"
  /\ IF thr[w].op = "Insert"
     THEN LET c == InsertChange(tree, leaf, key, thr[w].value) IN
          /\ tree' = c.T
          /\ kv' = IF c.ret THEN [kv EXCEPT ![key] = thr[w].value] ELSE kv
          /\ thr' = [(IF c.ret THEN Seen(thr, w, key) ELSE thr) EXCEPT
                        ![w].pc = "release", ![w].ret = c.ret]
     ELSE LET c == RemoveChange(tree, leaf, key) IN
          /\ tree' = c.T
          /\ kv' = [kv EXCEPT ![key] = 0]
          /\ thr' = [thr EXCEPT ![w].pc = "release", ![w].ret = TRUE, ![w].del = c.del]
  /\ UNCHANGED <<bt_ret, bpmVars>>

\* mutant: only the leaf is released, the root latch and the ancestors stay
\* held
WriteRelease_LeafOnly(w) ==
  /\ Running(tree)
  /\ thr[w].pc = "release"
  /\ tree' = ReleaseLeaf(NoPageSet(tree), thr[w].page)
  /\ bt_ret' = BtRet(thr[w].op, thr[w].key, thr[w].ret, << >>)
  /\ thr' = [thr EXCEPT ![w] = IdleWriter]
  /\ UNCHANGED <<kv, bpmVars>>

\* the end of InsertIntoLeaf / Remove: the latches and pins are given back
\* and the call returns
WriteRelease(w) ==
  /\ Running(tree)
  /\ thr[w].pc = "release"
  /\ tree' = IF thr[w].op = "Insert" THEN InsertRelease(tree, thr[w].page)
             ELSE RemoveRelease(tree, thr[w].page, thr[w].del)
  /\ bt_ret' = BtRet(thr[w].op, thr[w].key, thr[w].ret, << >>)
  /\ thr' = [thr EXCEPT ![w] = IdleWriter]
  /\ UNCHANGED <<kv, bpmVars>>

\* a thread of GetValue calls and a thread of Inserts / Removes
InitConc ==
  \* the buffer pool behind the index is part of `tree`
  /\ pages_ = << >> /\ free_list_ = << >> /\ page_table_ = << >> /\ replacer_ = << >>
  /\ next_page_id_ = 0 /\ disk = << >> /\ bpm_ret = << >> /\ bpm_log = << >>
  /\ tree = NewTree(ConcConfig[1], ConcConfig[2], MaxConcPageId)
  /\ kv = [k \in Keys |-> 0]
  /\ bt_ret = BtRet("Init", ZeroKey, TRUE, << >>)
  /\ thr = [rd |-> IdleReader, wr |-> IdleWriter]

NextConc ==
  \/ \E k \in ConcKeys : ReadCall("GetValue", k)
  \/ ReadLockRoot
  \/ ReadRoot
  \/ ReadRootUnlock
  \/ ReadDescend
  \/ ReadRelease
  \/ ReadLeaf
  \/ ReadReturn
  \/ \E w \in Writers(thr), k \in ConcKeys : WriteCall(w, "Insert", k, 1)
  \/ \E w \in Writers(thr), k \in ConcKeys : WriteCall(w, "Remove", k, 0)
  \/ \E w \in Writers(thr) : WriteStart(w)
  \/ \E w \in Writers(thr) : WriteLockRoot(w)
  \/ \E w \in Writers(thr) : WriteLatch(w)
  \/ \E w \in Writers(thr) : WriteModify(w)
  \/ \E w \in Writers(thr) : WriteRelease(w)

SpecConc == InitConc /\ [][NextConc]_vars

\* a thread of GetValue, Begin() and Begin(key) calls and a thread of
\* Inserts / Removes on a tree that grows to three levels
InitCrab ==
  \* the buffer pool behind the index is part of `tree`
  /\ pages_ = << >> /\ free_list_ = << >> /\ page_table_ = << >> /\ replacer_ = << >>
  /\ next_page_id_ = 0 /\ disk = << >> /\ bpm_ret = << >> /\ bpm_log = << >>
  /\ tree = NewTree(CrabConfig[1], CrabConfig[2], MaxCrabPageId)
  /\ kv = [k \in Keys |-> 0]
  /\ bt_ret = BtRet("Init", ZeroKey, TRUE, << >>)
  /\ thr = [rd |-> IdleReader, wr |-> IdleWriter]

NextCrab ==
  \/ NextConc
  \/ ReadCall("Begin", ZeroKey)
  \/ \E k \in ConcKeys : ReadCall("BeginKey", k)

SpecCrab == InitCrab /\ [][NextCrab]_vars

\* a thread of GetValue calls and two threads of Inserts / Removes
InitWriters ==
  \* the buffer pool behind the index is part of `tree`
  /\ pages_ = << >> /\ free_list_ = << >> /\ page_table_ = << >> /\ replacer_ = << >>
  /\ next_page_id_ = 0 /\ disk = << >> /\ bpm_ret = << >> /\ bpm_log = << >>
  /\ tree = NewTree(ConcConfig[1], ConcConfig[2], MaxWritersPageId)
  /\ kv = [k \in Keys |-> 0]
  /\ bt_ret = BtRet("Init", ZeroKey, TRUE, << >>)
  /\ thr = [rd |-> IdleReader, wr |-> IdleWriter, w2 |-> IdleWriter]

SpecWriters == InitWriters /\ [][NextConc]_vars

\* C5: a GetValue(k) that runs concurrently with Inserts / Removes of other
\* keys returns k's value whenever k is present for the whole of the call
\* (a consequence of linearizability of the point operations)
C5_StableRead ==
  (thr.rd.pc = "done" /\ thr.rd.stable) =>
     thr.rd.ret /\ thr.rd.result = <<kv[thr.rd.key]>>

\* C34: a thread changes the contents of a B+tree page only while it holds
\* that page's write latch, or while the page is freshly allocated; this
\* covers the sibling of a redistribute / coalesce, the children repointed
\* when entries move between internal pages and the child promoted by
\* AdjustRoot; hence no page is changed while another thread holds its read
\* latch.
C34_LatchedChanges ==
  [][ \A p \in PageSlots :
        tree'.pages[p] # tree.pages[p] =>
          /\ p \in tree.wlatch \/ p >= tree.next_pid
          /\ tree.rlatch[p] = 0 ]_vars

\* the call of writer w returns in this step
Returns(w) == thr[w].pc # "idle" /\ thr'[w].pc = "idle"

\* C35: Insert(k, v) returns false only when k is already present, whatever
\* Removes run concurrently (also one that empties the tree between Insert's
\* emptiness check and its descent): an Insert of a key that is absent for
\* the whole of the call returns true and k is present afterwards.
C35_InsertResult ==
  [][ \A w \in Writers(thr) :
        (Returns(w) /\ thr[w].op = "Insert" /\ thr[w].absent) =>
          /\ bt_ret'.ret
          /\ ~IsEmpty(tree')
          /\ thr[w].key \in StoredKeys(tree', tree'.root) ]_vars

\* ------------------------------------------------------------------------
\* Claims about the latches of a search (checked under SpecCrab)
\* ------------------------------------------------------------------------
\* the pages that are read-latched (the searching thread is the only one that
\* takes read latches)
ReadLatched(T) == { p \in PageSlots : T.rlatch[p] > 0 }

\* what the searching thread holds at each point of its call
SearchHolds ==
  LET rd == thr.rd
      H == ReadLatched(tree)
  IN
  /\ \A p \in PageSlots : tree.rlatch[p] <= 1
  /\ Cardinality(H) <= 2
  /\ rd.pc \in {"idle", "call", "rlock", "done"} => H = {}
  /\ rd.pc \in {"root", "page"} => H = {rd.page}
  /\ rd.pc = "crab" => H = {rd.parent, rd.page} /\ rd.parent # rd.page
  /\ (tree.root_readers > 0) = (rd.pc \in {"rlock", "root"})
  /\ tree.root_readers <= 1

\* a release by a search that goes on: the latch of the page it goes on with
\* was taken before
ReleaseAfterAcquire ==
  LET next == thr'.rd.page IN
  /\ thr'.rd.pc = "page" /\ tree'.root_readers < tree.root_readers =>
        /\ tree.rlatch[next] = 1
        /\ tree'.rlatch = tree.rlatch
        /\ tree'.root_readers = 0
  /\ \A p \in PageSlots :
        thr'.rd.pc = "page" /\ tree'.rlatch[p] < tree.rlatch[p] =>
          /\ p # next
          /\ tree.rlatch[next] = 1
          /\ tree'.rlatch[next] = 1

\* C28: a SEARCH traversal (GetValue, Begin(), Begin(key)) holds at most two
\* page read latches at any moment, a parent and the child it enters; it
\* takes the child's read latch before it releases the parent's; it holds
\* the root latch only until the root page is read-latched; and it holds no
\* latch once it has its result.
C28_SearchLatches ==
  /\ [][ Running(tree') => ReleaseAfterAcquire ]_vars
  /\ [](Running(tree) => SearchHolds)

\* a Begin(key) on a tree of three levels has latched a leaf and still holds
\* the latch of the leaf's parent, which is not the root
C28_Witness ==
  /\ Running(tree)
  /\ thr.rd.pc = "crab"
  /\ thr.rd.op = "BeginKey"
  /\ thr.rd.parent # tree.root
  /\ tree.pages[thr.rd.parent].kind = "internal"
  /\ tree.pages[thr.rd.parent].parent = tree.root
  /\ IsLeafPage(tree.pages[thr.rd.page])
  /\ ReadLatched(tree) = {thr.rd.parent, thr.rd.page}

\* ------------------------------------------------------------------------
\* Claims about the latches of Insert and Remove (checked under SpecWriters)
\* ------------------------------------------------------------------------
\* the calls that are between FindLeafPage's root_latch_.WLock() and the
\* release at the end of InsertIntoLeaf / Remove
Descended == { w \in Writers(thr) : thr[w].pc \in {"latch", "modify", "release"} }

\* `child` is in a slot of the internal page `parent`
ChildOf(T, parent, child) ==
  /\ T.pages[parent].kind = "internal"
  /\ \E i \in 0 .. GetSize(T.pages[parent]) - 1 : ValueAt(T.pages[parent], i) = child

\* path \o <<last>> leads from the root down, page by page
RootPath(T, path, last) ==
  LET full == path \o <<last>> IN
  /\ full[1] = T.root
  /\ \A i \in 1 .. Len(full) - 1 : ChildOf(T, full[i], full[i + 1])

\* what a descended call holds: the root latch in exclusive mode, with its
\* marker at the head of the page set, and the write latch of every page it
\* has passed, which are the pages from the root down to the leaf
WriterHolds(w) ==
  LET ps == tree.page_set
      path == Tail(ps)
  IN
  /\ tree.root_latch = 1
  /\ tree.root_readers = 0
  /\ ps # << >> /\ Head(ps) = NullMark
  /\ \A i \in 1 .. Len(path) : path[i] # NullMark
  /\ thr[w].pc = "latch" =>
        /\ tree.wlatch = SeqToSet(path)
        /\ RootPath(tree, path, thr[w].page)
  /\ thr[w].pc = "modify" =>
        /\ tree.wlatch = SeqToSet(path) \cup {thr[w].page}
        /\ RootPath(tree, path, thr[w].page)
        /\ IsLeafPage(tree.pages[thr[w].page])
  /\ thr[w].pc = "release" =>
        tree.wlatch = SeqToSet(path) \cup {thr[w].page}

\* the change of InsertIntoLeaf / Remove gives up no latch; the release that
\* follows it gives up all of them
HeldUntilChanged ==
  \A w \in Writers(thr) :
    /\ thr[w].pc = "modify" /\ thr'[w].pc = "release" =>
          /\ tree'.root_latch = tree.root_latch
          /\ tree'.wlatch = tree.wlatch
          /\ tree'.page_set = tree.page_set
    /\ thr[w].pc = "release" /\ thr'[w].pc = "idle" =>
          /\ tree'.root_latch = 0
          /\ tree'.wlatch = {}
          /\ tree'.page_set = << >>

\* root_page_id_ changes in a step of the one call that holds the root latch
\* in exclusive mode (or of an Insert into the empty tree, which takes and
\* gives back the latch in that step), while no search holds it shared
RootChangeAlone ==
  tree'.root # tree.root =>
    /\ tree.root_readers = 0
    /\ thr.rd.pc \notin {"rlock", "root"}
    /\ \/ \E w \in Writers(thr) :
             /\ Descended = {w}
             /\ thr[w].pc = "modify" /\ thr'[w].pc = "release"
             /\ tree.root_latch = 1
       \/ \E w \in Writers(thr) :
             /\ Descended = {}
             /\ thr[w].pc = "call" /\ thr'[w].pc = "idle"
             /\ tree.root_latch = 0

\* C29: an Insert or Remove that descends a non-empty tree with a
\* transaction holds the root latch in exclusive mode and a write latch on
\* every page of its root-to-leaf path from the descent until its change to
\* the pages (splits, merges and root changes included) is complete; so at
\* most one Insert / Remove is between its descent and its release, and no
\* other thread reads root_page_id_ while it changes.
C29_WriteLatches ==
  /\ [][ Running(tree') => HeldUntilChanged /\ RootChangeAlone ]_vars
  /\ [](Running(tree) =>
          /\ Cardinality(Descended) <= 1
          /\ \A w \in Descended : WriterHolds(w))

\* a Remove that went through the root to a leaf has merged the leaf away
\* and changed the root, and still holds the root latch and both write
\* latches, while the other Insert / Remove and a search wait for the root
\* latch
C29_Witness ==
  /\ Running(tree)
  /\ \E w \in Writers(thr), v \in Writers(thr) :
        /\ thr[w].pc = "release" /\ thr[w].op = "Remove"
        /\ Len(tree.page_set) = 2
        /\ tree.root # tree.page_set[2]
        /\ tree.wlatch = {tree.page_set[2], thr[w].page}
        /\ tree.root_latch = 1
        /\ v # w /\ thr[v].pc = "find"
  /\ thr.rd.pc = "call"

\* ------------------------------------------------------------------------
\* Threads that make a bounded number of calls on a pool that never runs out
\* of frames, under fair scheduling: a thread inside a call takes its next
\* step once that step stays possible.
\* A buffer pool call holds the pool's mutex from its first line to its
\* return and, inside, the mutex of the replacer or of the page table for one
\* call of theirs; it waits for no latch of the tree, so it is one step of
\* the calling thread.
\* ------------------------------------------------------------------------
\* keys of the calls of the fair threads
FairKeys == 1 .. MaxFairKey

\* the steps of a search between its invocation and its return
ReadStep ==
  \/ ReadLockRoot \/ ReadRoot \/ ReadRootUnlock \/ ReadDescend
  \/ ReadRelease \/ ReadLeaf \/ ReadReturn

\* the steps of thread w that acquire or release latches
LatchStep(w) ==
  \/ WriteStart(w) \/ WriteLockRoot(w) \/ WriteLatch(w) \/ WriteRelease(w)

\* WF_vars(WriteModify(w)): the step is possible whenever the thread stands
\* before it in a running tree, and takes the thread past it
ModifyFair(w) == []<>(thr[w].pc # "modify" \/ ~Running(tree))

\* one of the calls that remain: GetValue(key), Begin() or Begin(key)
FairReadCall(op, key) ==
  /\ Running(tree)
  /\ thr.calls > 0
  /\ thr.rd.pc = "idle"
  /\ (op = "Begin") = (key = ZeroKey)
  /\ thr' = [ReadCalled(op, key) EXCEPT !.calls = @ - 1]
  /\ UNCHANGED <<tree, kv, bt_ret, bpmVars>>

\* one of the calls that remain: Insert(key, value) or Remove(key)
FairWriteCall(w, op, key, value) ==
  /\ Running(tree)
  /\ thr.calls > 0
  /\ thr[w].pc = "idle"
  /\ thr' = [WriteCalled(w, op, key, value) EXCEPT !.calls = @ - 1]
  /\ UNCHANGED <<tree, kv, bt_ret, bpmVars>>

InitFair ==
  \* the buffer pool behind the index is part of `tree`
  /\ pages_ = << >> /\ free_list_ = << >> /\ page_table_ = << >> /\ replacer_ = << >>
  /\ next_page_id_ = 0 /\ disk = << >> /\ bpm_ret = << >> /\ bpm_log = << >>
  /\ tree = NewTree(CrabConfig[1], CrabConfig[2], -1)
  /\ kv = [k \in Keys |-> 0]
  /\ bt_ret = BtRet("Init", ZeroKey, TRUE, << >>)
  /\ thr = [rd |-> IdleReader, wr |-> IdleWriter, w2 |-> IdleWriter,
            calls |-> MaxFairCalls]

NextFair ==
  \/ \E k \in FairKeys : FairReadCall("GetValue", k)
  \/ FairReadCall("Begin", ZeroKey)
  \/ \E k \in FairKeys : FairReadCall("BeginKey", k)
  \/ ReadLockRoot
  \/ ReadRoot
  \/ ReadRootUnlock
  \/ ReadDescend
  \/ ReadRelease
  \/ ReadLeaf
  \/ ReadReturn
  \/ \E w \in Writers(thr), k \in FairKeys : FairWriteCall(w, "Insert", k, 1)
  \/ \E w \in Writers(thr), k \in FairKeys : FairWriteCall(w, "Remove", k, 0)
  \/ \E w \in Writers(thr) : WriteStart(w)
  \/ \E w \in Writers(thr) : WriteLockRoot(w)
  \/ \E w \in Writers(thr) : WriteLatch(w)
  \/ \E w \in Writers(thr) : WriteModify(w)
  \/ \E w \in Writers(thr) : WriteRelease(w)

SpecFair ==
  /\ InitFair /\ [][NextFair]_vars
  /\ WF_vars(ReadStep)
  /\ WF_vars(LatchStep("wr")) /\ ModifyFair("wr")
  /\ WF_vars(LatchStep("w2")) /\ ModifyFair("w2")

\* C37: deadlock freedom: with threads running GetValue, Begin, Insert and
\* Remove on one tree (each write with its own transaction, no fetch failing),
\* under fair scheduling every call eventually returns.
C37_Progress ==
  /\ (thr.rd.pc # "idle") ~> (thr.rd.pc = "idle")
  /\ (thr.wr.pc # "idle") ~> (thr.wr.pc = "idle")
  /\ (thr.w2.pc # "idle") ~> (thr.w2.pc = "idle")

\* a Remove has merged the leaves under the root and still holds the root
\* latch and the write latches of its path, while the other writer waits for
\* the root latch and a search waits for it too
C37_Witness ==
  /\ Running(tree)
  /\ thr.wr.pc = "release" /\ thr.wr.op = "Remove" /\ thr.wr.del
  /\ tree.root_latch = 1 /\ Cardinality(tree.wlatch) = 2
  /\ thr.w2.pc = "find"
  /\ thr.rd.pc = "call"


\* ========================================================================
\* Extendible hash table (src/project1/extendible_hash_table.cpp), here the
\* instantiation ExtendibleHashTable<int, int>.  The table is the record
\*   [global_depth_, num_buckets_, dir_, buckets]
\* where buckets is the arena of Bucket objects in allocation order and dir_
\* holds, for slot i of the code's vector, the arena index of the bucket its
\* shared_ptr points to at position i+1.  A bucket is [depth_, list_], list_
\* the sequence of <<key, value>> pairs.
\* ========================================================================
HashKeys == 0 .. MaxHashKey
HashValues == 1 .. MaxHashValue

RECURSIVE Pow2(_)
Pow2(n) == IF n = 0 THEN 1 ELSE 2 * Pow2(n - 1)

\* std::hash<int>()(key): the value itself
Hash(key) == key

\* x & ((1 << d) - 1)
LowBits(x, d) == x % Pow2(d)

\* (x >> b) & 1
Bit(x, b) == (x \div Pow2(b)) % 2

IndexOf(ht, key) == LowBits(Hash(key), ht.global_depth_)

NewBucket(depth) == [depth_ |-> depth, list_ |-> << >>]

\* the constructor: one bucket of depth 0; global_depth_ 0 and num_buckets_ 1
\* are the members' initial values
NewHashTable ==
  [global_depth_ |-> 0, num_buckets_ |-> 1, dir_ |-> <<1>>,
   buckets |-> <<NewBucket(0)>>]

\* position of the first pair with this key in a bucket's list_, 0 if none
PairIndex(b, key) ==
  IF \E i \in 1 .. Len(b.list_) : b.list_[i][1] = key
  THEN CHOOSE i \in 1 .. Len(b.list_) :
         /\ b.list_[i][1] = key
         /\ \A j \in 1 .. (i - 1) : b.list_[j][1] # key
  ELSE 0

\* Bucket::Find
BucketFind(b, key) ==
  LET i == PairIndex(b, key)
  IN IF i = 0 THEN [found |-> FALSE, value |-> 0]
     ELSE [found |-> TRUE, value |-> b.list_[i][2]]

\* Bucket::Remove
BucketRemove(b, key) ==
  LET i == PairIndex(b, key)
  IN IF i = 0 THEN [ok |-> FALSE, bucket |-> b]
     ELSE [ok |-> TRUE,
           bucket |-> [b EXCEPT !.list_ = SubSeq(b.list_, 1, i - 1) \o
                                          SubSeq(b.list_, i + 1, Len(b.list_))]]

\* Bucket::IsFull
IsFull(b) == Len(b.list_) = BucketSize

\* mutant: an existing key gets a second pair
BucketInsert_Append(b, key, value) ==
  IF IsFull(b) THEN [ok |-> FALSE, bucket |-> b]
  ELSE [ok |-> TRUE, bucket |-> [b EXCEPT !.list_ = Append(b.list_, <<key, value>>)]]

\* mutant: the bucket takes a new pair however many it holds
BucketInsert_Unbounded(b, key, value) ==
  LET i == PairIndex(b, key)
  IN IF i # 0 THEN [ok |-> TRUE, bucket |-> [b EXCEPT !.list_[i] = <<key, value>>]]
     ELSE [ok |-> TRUE, bucket |-> [b EXCEPT !.list_ = Append(b.list_, <<key, value>>)]]

\* Bucket::Insert
BucketInsert(b, key, value) ==
  LET i == PairIndex(b, key)
  IN IF i # 0 THEN [ok |-> TRUE, bucket |-> [b EXCEPT !.list_[i] = <<key, value>>]]
     ELSE IF IsFull(b) THEN [ok |-> FALSE, bucket |-> b]
     ELSE [ok |-> TRUE, bucket |-> [b EXCEPT !.list_ = Append(b.list_, <<key, value>>)]]

\* ExtendibleHashTable::Find
HashFind(ht, key) == BucketFind(ht.buckets[ht.dir_[IndexOf(ht, key) + 1]], key)

\* ExtendibleHashTable::Remove
HashRemove(ht, key) ==
  LET t == ht.dir_[IndexOf(ht, key) + 1]
      r == BucketRemove(ht.buckets[t], key)
  IN [ok |-> r.ok, ht |-> [ht EXCEPT !.buckets[t] = r.bucket]]

\* mutant: every split doubles the directory
SplitBucket_AlwaysDoubles(ht, t) ==
  LET local_depth == ht.buckets[t].depth_ + 1
      dir1 == ht.dir_ \o ht.dir_
      n == Len(ht.buckets) + 1
      items == ht.buckets[t].list_
      stay == SelectSeq(items, LAMBDA it : Bit(LowBits(Hash(it[1]), local_depth), local_depth - 1) = 0)
      move == SelectSeq(items, LAMBDA it : Bit(LowBits(Hash(it[1]), local_depth), local_depth - 1) # 0)
  IN [global_depth_ |-> ht.global_depth_ + 1,
      num_buckets_ |-> ht.num_buckets_ + 1,
      dir_ |-> [i \in 1 .. Len(dir1) |->
                 IF dir1[i] = t /\ Bit(i - 1, local_depth - 1) = 1 THEN n ELSE dir1[i]],
      buckets |-> Append([ht.buckets EXCEPT ![t] = [depth_ |-> local_depth, list_ |-> stay]],
                         [depth_ |-> local_depth, list_ |-> move])]

\* mutant: the split redirects every slot of the full bucket with an odd index
SplitBucket_LowBit(ht, t) ==
  LET local_depth == ht.buckets[t].depth_ + 1
      grow == ht.buckets[t].depth_ = ht.global_depth_
      dir1 == IF grow THEN ht.dir_ \o ht.dir_ ELSE ht.dir_
      n == Len(ht.buckets) + 1
      items == ht.buckets[t].list_
      stay == SelectSeq(items, LAMBDA it : Bit(LowBits(Hash(it[1]), local_depth), local_depth - 1) = 0)
      move == SelectSeq(items, LAMBDA it : Bit(LowBits(Hash(it[1]), local_depth), local_depth - 1) # 0)
  IN [global_depth_ |-> IF grow THEN ht.global_depth_ + 1 ELSE ht.global_depth_,
      num_buckets_ |-> ht.num_buckets_ + 1,
      dir_ |-> [i \in 1 .. Len(dir1) |->
                 IF dir1[i] = t /\ Bit(i - 1, 0) = 1 THEN n ELSE dir1[i]],
      buckets |-> Append([ht.buckets EXCEPT ![t] = [depth_ |-> local_depth, list_ |-> stay]],
                         [depth_ |-> local_depth, list_ |-> move])]

\* one pass of Insert's loop after the bucket refused the pair: double the
\* directory if the bucket is at global depth, split the bucket, move its
\* items, redirect the slots
SplitBucket(ht, t) ==
  LET local_depth == ht.buckets[t].depth_ + 1
      grow == ht.buckets[t].depth_ = ht.global_depth_
      dir1 == IF grow THEN ht.dir_ \o ht.dir_ ELSE ht.dir_
      n == Len(ht.buckets) + 1
      items == ht.buckets[t].list_
      stay == SelectSeq(items, LAMBDA it : Bit(LowBits(Hash(it[1]), local_depth), local_depth - 1) = 0)
      move == SelectSeq(items, LAMBDA it : Bit(LowBits(Hash(it[1]), local_depth), local_depth - 1) # 0)
  IN [global_depth_ |-> IF grow THEN ht.global_depth_ + 1 ELSE ht.global_depth_,
      num_buckets_ |-> ht.num_buckets_ + 1,
      dir_ |-> [i \in 1 .. Len(dir1) |->
                 IF dir1[i] = t /\ Bit(i - 1, local_depth - 1) = 1 THEN n ELSE dir1[i]],
      buckets |-> Append([ht.buckets EXCEPT ![t] = [depth_ |-> local_depth, list_ |-> stay]],
                         [depth_ |-> local_depth, list_ |-> move])]

\* ExtendibleHashTable::Insert: the while (true) loop, `passes` bounding the
\* passes followed; returned is FALSE when the loop is still running then
RECURSIVE HashInsert(_, _, _, _)
HashInsert(ht, key, value, passes) ==
  LET t == ht.dir_[IndexOf(ht, key) + 1]
      r == BucketInsert(ht.buckets[t], key, value)
  IN IF r.ok THEN [returned |-> TRUE, ht |-> [ht EXCEPT !.buckets[t] = r.bucket]]
     ELSE IF passes = 0 THEN [returned |-> FALSE, ht |-> ht]
     ELSE HashInsert(SplitBucket(ht, t), key, value, passes - 1)

\* more passes than keys of HashKeys can need
MaxPasses == MaxHashKey + 2

\* the table at the top of each pass of Insert's loop, the first pass first
RECURSIVE InsertPasses(_, _, _, _)
InsertPasses(ht, key, value, passes) ==
  LET t == ht.dir_[IndexOf(ht, key) + 1]
      r == BucketInsert(ht.buckets[t], key, value)
  IN IF r.ok \/ passes = 0 THEN <<ht>>
     ELSE <<ht>> \o InsertPasses(SplitBucket(ht, t), key, value, passes - 1)

HashRet(op, key, value, ok) == [op |-> op, key |-> key, value |-> value, ok |-> ok]

\* the keys of the split scenario: low bits 00, 10, 01, 11
ScenarioKeys == <<0, 2, 1, 3>>

\* the calls made are no beginning of the scenario
OffScenario == <<-1>>

\* the keys inserted so far, kept while the calls that changed the table are a
\* beginning of the scenario
ScenarioLog(log, key) ==
  IF /\ log # OffScenario
     /\ Len(log) < Len(ScenarioKeys)
     /\ Append(log, key) = SubSeq(ScenarioKeys, 1, Len(log) + 1)
  THEN Append(log, key)
  ELSE OffScenario

\* ------------------------------------------------------------------------
\* The table called directly: page_table_ is the table, kv the map of the
\* calls made so far (0: absent), bpm_ret the last call and its result (for
\* Insert also the number of splits its loop made),
\* bpm_log the keys inserted while the calls follow the split scenario
\* ------------------------------------------------------------------------
HashInsertCall(key, value) ==
  LET r == HashInsert(page_table_, key, value, MaxPasses)
  IN /\ page_table_' = r.ht
     /\ kv' = [kv EXCEPT ![key] = value]
     /\ bpm_ret' = HashRet("Insert", key, value, r.returned) @@
                     [splits |-> Len(InsertPasses(page_table_, key, value, MaxPasses)) - 1]
     /\ bpm_log' = ScenarioLog(bpm_log, key)
     /\ UNCHANGED <<pages_, free_list_, replacer_, next_page_id_, disk, tree, bt_ret, thr>>

HashRemoveCall(key) ==
  LET r == HashRemove(page_table_, key)
  IN /\ page_table_' = r.ht
     /\ kv' = [kv EXCEPT ![key] = 0]
     /\ bpm_ret' = HashRet("Remove", key, 0, r.ok)
     /\ bpm_log' = OffScenario
     /\ UNCHANGED <<pages_, free_list_, replacer_, next_page_id_, disk, tree, bt_ret, thr>>

HashFindCall(key) ==
  LET r == HashFind(page_table_, key)
  IN /\ bpm_ret' = HashRet("Find", key, r.value, r.found)
     /\ UNCHANGED <<pages_, free_list_, page_table_, replacer_, next_page_id_, disk, bpm_log, treeVars>>

InitHash ==
  /\ page_table_ = NewHashTable
  /\ kv = [k \in HashKeys |-> 0]
  /\ bpm_ret = HashRet("Init", 0, 0, TRUE)
  /\ pages_ = << >>
  /\ free_list_ = << >>
  /\ replacer_ = << >>
  /\ next_page_id_ = 0
  /\ disk = << >>
  /\ bpm_log = << >>
  /\ tree = << >>
  /\ bt_ret = << >>
  /\ thr = << >>

NextHash ==
  \/ \E key \in HashKeys, value \in HashValues : HashInsertCall(key, value)
  \/ \E key \in HashKeys : HashRemoveCall(key)
  \/ \E key \in HashKeys : HashFindCall(key)

SpecHash == InitHash /\ [][NextHash]_vars


\* ========================================================================
\* Claims about the extendible hash table (checked under SpecHash)
\* ========================================================================
\* the places <<bucket, position>> of the pairs stored under a key
Entries(ht, key) ==
  UNION { { <<b, i>> : i \in { j \in 1 .. Len(ht.buckets[b].list_) :
                                 ht.buckets[b].list_[j][1] = key } } :
          b \in 1 .. Len(ht.buckets) }

\* what Find returns for a key the map holds with value v (0: absent)
FindResult(v) == [found |-> v # 0, value |-> v]

\* Find agrees with the map of the calls made so far, one pair per key
AgreesWithMap(ht, map) ==
  \A k \in HashKeys :
    /\ HashFind(ht, k) = FindResult(map[k])
    /\ Cardinality(Entries(ht, k)) = IF map[k] = 0 THEN 0 ELSE 1

\* C21: the hash table behaves as a map under any sequence of Insert, Remove
\* and Find, splits and directory doublings included: Find(k) returns the
\* value of the latest Insert(k, v) not followed by Remove(k) and not found
\* otherwise, Insert on an existing key overwrites without a second entry,
\* Remove(k) returns true exactly when k was present.
C21_Map ==
  /\ [](AgreesWithMap(page_table_, kv))
  /\ [][
      /\ bpm_ret'.op = "Find" =>
           /\ bpm_ret'.ok = (kv[bpm_ret'.key] # 0)
           /\ bpm_ret'.value = kv[bpm_ret'.key]
      /\ bpm_ret'.op = "Insert" =>
           /\ bpm_ret'.ok
           /\ HashFind(page_table_', bpm_ret'.key) = [found |-> TRUE, value |-> bpm_ret'.value]
           /\ Cardinality(Entries(page_table_', bpm_ret'.key)) = 1
           /\ \A k \in HashKeys \ {bpm_ret'.key} :
                HashFind(page_table_', k) = HashFind(page_table_, k)
      /\ bpm_ret'.op = "Remove" =>
           /\ bpm_ret'.ok = (kv[bpm_ret'.key] # 0)
           /\ ~HashFind(page_table_', bpm_ret'.key).found
           /\ \A k \in HashKeys \ {bpm_ret'.key} :
                HashFind(page_table_', k) = HashFind(page_table_, k)
    ]_vars

\* Find has returned the second value of a key, in a table whose directory
\* has doubled twice and that holds a bucket split without doubling
C21_Witness ==
  /\ bpm_ret.op = "Find"
  /\ bpm_ret.ok
  /\ bpm_ret.value = 2
  /\ page_table_.global_depth_ = 2
  /\ page_table_.num_buckets_ = 4
  /\ \E k \in HashKeys : kv[k] = 0

\* Find returns its value for every key of the scenario
ScenarioFinds(ht) ==
  \A i \in 1 .. Len(ScenarioKeys) :
    /\ kv[ScenarioKeys[i]] # 0
    /\ HashFind(ht, ScenarioKeys[i]) = FindResult(kv[ScenarioKeys[i]])

\* C22: with bucket size 2 and global depth 0 at the start, after the inserts
\* of four keys with hash low bits 00, 10, 01, 11 in that order the directory
\* has doubled to global depth 2, the buckets are at local depth 2,
\* NumBuckets >= 3, and Find on each inserted key returns its value.
C22_DepthTwo ==
  bpm_log = ScenarioKeys =>
    /\ page_table_.global_depth_ = 2
    /\ \A b \in 1 .. Len(page_table_.buckets) : page_table_.buckets[b].depth_ = 2
    /\ page_table_.num_buckets_ >= 3
    /\ ScenarioFinds(page_table_)

\* C22 (amended): after the four inserts the directory has doubled once, to
\* global depth 1, its two buckets are at local depth 1 and hold the even and
\* the odd keys, NumBuckets = 2, and Find on each inserted key returns its
\* value.
C22_DepthOne ==
  bpm_log = ScenarioKeys =>
    /\ page_table_.global_depth_ = 1
    /\ page_table_.dir_ = <<1, 2>>
    /\ \A b \in 1 .. Len(page_table_.buckets) : page_table_.buckets[b].depth_ = 1
    /\ { page_table_.buckets[1].list_[n][1] : n \in 1 .. Len(page_table_.buckets[1].list_) } = {0, 2}
    /\ { page_table_.buckets[2].list_[n][1] : n \in 1 .. Len(page_table_.buckets[2].list_) } = {1, 3}
    /\ page_table_.num_buckets_ = 2
    /\ ScenarioFinds(page_table_)

\* the scenario's four inserts have been made and Find has returned the
\* value of its last key
C22_Witness ==
  /\ bpm_log = ScenarioKeys
  /\ bpm_ret.op = "Find"
  /\ bpm_ret.key = 3
  /\ bpm_ret.ok
  /\ bpm_ret.value = kv[3]

\* the slots of the directory (the code's indices) that refer to bucket b
SlotsOf(ht, b) == { i \in 0 .. (Len(ht.dir_) - 1) : ht.dir_[i + 1] = b }

\* the directory and the depths of the table
Shape(ht) ==
  <<ht.global_depth_, ht.num_buckets_, ht.dir_,
    [b \in 1 .. Len(ht.buckets) |-> ht.buckets[b].depth_]>>

WellFormed(ht) ==
  /\ Len(ht.dir_) = Pow2(ht.global_depth_)
  /\ \A b \in 1 .. Len(ht.buckets) :
       LET d == ht.buckets[b].depth_ IN
       /\ d <= ht.global_depth_
       /\ Cardinality(SlotsOf(ht, b)) = Pow2(ht.global_depth_ - d)
       /\ \A i, j \in SlotsOf(ht, b) : LowBits(i, d) = LowBits(j, d)
       /\ \A i \in 0 .. (Len(ht.dir_) - 1) :
            (\E j \in SlotsOf(ht, b) : LowBits(i, d) = LowBits(j, d)) => i \in SlotsOf(ht, b)
       /\ Len(ht.buckets[b].list_) <= BucketSize
       /\ \A n \in 1 .. Len(ht.buckets[b].list_) :
            ht.dir_[IndexOf(ht, ht.buckets[b].list_[n][1]) + 1] = b
  /\ ht.num_buckets_ = Cardinality(SeqToSet(ht.dir_))

\* C23: after any sequence of operations the directory has 2^global_depth
\* slots; every local depth is <= global depth; a bucket of local depth d is
\* referenced by exactly the 2^(global_depth-d) slots that agree on their low
\* d bits; every key lies in the bucket of slot hash(k) mod 2^global_depth;
\* no bucket holds more than bucket_size items; NumBuckets is the number of
\* distinct buckets referenced; Find and Remove change no depth, NumBuckets
\* or directory slot.
C23_Directory ==
  /\ [](WellFormed(page_table_))
  /\ [][ bpm_ret'.op \in {"Find", "Remove"} => Shape(page_table_') = Shape(page_table_)
      ]_vars

\* Remove has emptied a bucket of a table in which a bucket of local depth 1
\* has two slots of a directory of depth 2
C23_Witness ==
  /\ bpm_ret.op = "Remove"
  /\ bpm_ret.ok
  /\ page_table_.global_depth_ = 2
  /\ \E b \in 1 .. Len(page_table_.buckets) :
       page_table_.buckets[b].depth_ = 1 /\ Cardinality(SlotsOf(page_table_, b)) = 2
  /\ \E b \in 1 .. Len(page_table_.buckets) :
       page_table_.buckets[b].depth_ = 2 /\ page_table_.buckets[b].list_ = << >>

\* the bits of the hashes of the keys: the least w with MaxHashKey < 2^w
HashBits == CHOOSE w \in 0 .. (MaxHashKey + 1) :
              /\ Pow2(w) > MaxHashKey
              /\ \A v \in 0 .. (w - 1) : Pow2(v) <= MaxHashKey

\* the bucket Insert(key) goes to
TargetOf(ht, key) == ht.buckets[ht.dir_[IndexOf(ht, key) + 1]]

\* the target bucket refuses the key, and the key's hash differs in some bit
\* from the hash of an item of it
SplitsFor(ht, key) ==
  /\ IsFull(TargetOf(ht, key))
  /\ PairIndex(TargetOf(ht, key), key) = 0
  /\ \E n \in 1 .. Len(TargetOf(ht, key).list_), b \in 0 .. (HashBits - 1) :
       Bit(Hash(TargetOf(ht, key).list_[n][1]), b) # Bit(Hash(key), b)

\* one split, from the table a at the top of a pass to the table b at the
\* top of the next
OneSplit(a, b, key) ==
  /\ TargetOf(b, key).depth_ = TargetOf(a, key).depth_ + 1
  /\ b.num_buckets_ = a.num_buckets_ + 1
  /\ Len(b.buckets) = Len(a.buckets) + 1
  /\ IF TargetOf(a, key).depth_ = a.global_depth_
     THEN b.global_depth_ = a.global_depth_ + 1 /\ Len(b.dir_) = 2 * Len(a.dir_)
     ELSE b.global_depth_ = a.global_depth_ /\ b.dir_ # a.dir_ /\ Len(b.dir_) = Len(a.dir_)

\* C40: Insert terminates: for any table state and any key whose hash differs
\* in some bit from the hash of an item of its full target bucket, the loop
\* ends after finitely many splits (no more than the hash has bits above the
\* bucket's local depth) with the key stored; each split raises the target
\* bucket's local depth by one and NumBuckets by one, and doubles the
\* directory only when the local depth equalled the global depth.
C40_InsertTerminates ==
  [][ (bpm_ret'.op = "Insert" /\ SplitsFor(page_table_, bpm_ret'.key)) =>
        LET key == bpm_ret'.key
            tr == InsertPasses(page_table_, key, bpm_ret'.value, MaxPasses)
        IN /\ bpm_ret'.ok
           /\ bpm_ret'.splits = Len(tr) - 1
           /\ bpm_ret'.splits \in 1 .. (HashBits - TargetOf(page_table_, key).depth_)
           /\ \A i \in 1 .. (Len(tr) - 1) : OneSplit(tr[i], tr[i + 1], key)
           /\ page_table_'.num_buckets_ = page_table_.num_buckets_ + bpm_ret'.splits
           /\ HashFind(page_table_', key) = [found |-> TRUE, value |-> bpm_ret'.value]
    ]_vars

\* Insert has returned after two passes that split: the table had its one
\* bucket of depth 0, full with two keys that agree with the new key in the
\* lowest bit, and both splits doubled the directory
C40_Witness ==
  /\ bpm_ret.op = "Insert"
  /\ bpm_ret.ok
  /\ bpm_ret.splits = 2
  /\ page_table_.global_depth_ = 2
  /\ page_table_.num_buckets_ = 3
  /\ TargetOf(page_table_, bpm_ret.key).depth_ = 2
  /\ TargetOf(page_table_, bpm_ret.key).list_ = <<<<bpm_ret.key, bpm_ret.value>>>>

====
